---- MODULE Spec2Model ----
(***************************************************************************)
(* A model of the docker-toolbox wrapper.  This part covers the Argument   *)
(* Encoder, optionsToArgs (util.ts): a configuration mapping and optional  *)
(* parse options go in, an ordered sequence of argument tokens comes out.  *)
(*                                                                         *)
(* JavaScript strings are sequences of one-character strings, so that      *)
(* quoting, case conversion, hyphenation and joining are computed and not  *)
(* assumed.  JavaScript values are records [t, v] tagged with their kind;  *)
(* objects are sequences of [k, v] entries in property iteration order.    *)
(***************************************************************************)
EXTENDS Integers, Sequences, FiniteSets, TLC

VARIABLES options, parseOptions, prefix, pc, idx, optArgs, result, calls

\* the facades: the DockerCompose object, the DockerMachine handle, the last
\* facade call and what the caller's options object looks like after it, the
\* spawned subprocess and its completion promise, the text captured from its
\* standard output, the env query in progress and the promise derived for it
VARIABLES compose, handle, call, callerOptions, child, promise, out, query,
          derived

\* a second refreshEnv call under way beside the first, the event stream of
\* events(), and a LineReadStream with its upstream source and its consumer
VARIABLES inflight, stream, lrs

streamVars == <<inflight, stream, lrs>>

facadeVars ==
  <<compose, handle, call, callerOptions, child, promise, out, query, derived,
    streamVars>>

vars == <<options, parseOptions, prefix, pc, idx, optArgs, result, calls,
          facadeVars>>

\* the variables of one optionsToArgs call
encoderVars == <<options, parseOptions, prefix, pc, idx, optArgs, result, calls>>

(* ------------------------------ bounds --------------------------------- *)

\* most entries in one configuration mapping
MaxEntries == 2
\* most completed calls remembered in the call log
MaxCalls == 3

(* --------------------------- JavaScript values ------------------------- *)

Undefined == [t |-> "undefined", v |-> <<>>]
Null == [t |-> "null", v |-> <<>>]
Bool(b) == [t |-> "boolean", v |-> b]
Str(s) == [t |-> "string", v |-> s]
Num(n) == [t |-> "number", v |-> n]
Arr(a) == [t |-> "array", v |-> a]
Obj(o) == [t |-> "object", v |-> o]

\* the typeof operator
typeOf(x) ==
  IF x.t \in {"array", "object", "null"} THEN "object" ELSE x.t

\* Array.isArray
isArray(x) == x.t = "array"

\* truthiness, as tested by `if (x)`, `x || y` and `x && y`
truthy(x) ==
  CASE x.t = "boolean" -> x.v
    [] x.t = "string" -> x.v # <<>>
    [] x.t = "number" -> x.v # 0
    [] x.t \in {"undefined", "null"} -> FALSE
    [] OTHER -> TRUE

\* x || y
orElse(x, y) == IF truthy(x) THEN x ELSE y

\* property read obj[key]; a missing property reads as undefined
getProp(obj, key) ==
  IF \E i \in 1..Len(obj.v) : obj.v[i].k = key
  THEN LET i == CHOOSE j \in 1..Len(obj.v) : obj.v[j].k = key IN obj.v[i].v
  ELSE Undefined

(* ------------------------------- strings ------------------------------- *)

UpperChars == <<"A", "B", "C", "D", "E", "F", "G", "H", "I", "J", "K", "L", "M", "N", "O", "P", "Q", "R", "S", "T", "U", "V", "W", "X", "Y", "Z">>
LowerChars == <<"a", "b", "c", "d", "e", "f", "g", "h", "i", "j", "k", "l", "m", "n", "o", "p", "q", "r", "s", "t", "u", "v", "w", "x", "y", "z">>
DigitChars == <<"0", "1", "2", "3", "4", "5", "6", "7", "8", "9">>

\* the characters the regular expression class \s matches (those in use)
WhitespaceChars == {" ", "\t", "\n", "\r"}

\* the character class [A-Z]
isUpperAZ(c) == \E i \in 1..Len(UpperChars) : UpperChars[i] = c

\* String.prototype.toLowerCase on one character
lowerChar(c) ==
  IF isUpperAZ(c)
  THEN LowerChars[CHOOSE i \in 1..Len(UpperChars) : UpperChars[i] = c]
  ELSE c

\* String.prototype.toLowerCase
toLowerCase(s) == [i \in 1..Len(s) |-> lowerChar(s[i])]

\* s.replace(/([A-Z])/g, '-$1')
RECURSIVE replaceUpper(_)
replaceUpper(s) ==
  IF s = <<>> THEN <<>>
  ELSE IF isUpperAZ(Head(s))
       THEN <<"-", Head(s)>> \o replaceUpper(Tail(s))
       ELSE <<Head(s)>> \o replaceUpper(Tail(s))

\* s.search(/\s+/) > -1
hasWhitespace(s) == \E i \in 1..Len(s) : s[i] \in WhitespaceChars

\* Number.prototype.toString for a non-negative integer
RECURSIVE natToString(_)
natToString(n) ==
  IF n < 10 THEN <<DigitChars[n + 1]>>
  ELSE natToString(n \div 10) \o <<DigitChars[(n % 10) + 1]>>

\* Number.prototype.toString (radix 10) for an integer
numberToString(n) ==
  IF n < 0 THEN <<"-">> \o natToString(0 - n) ELSE natToString(n)

\* String(x) for a primitive, as used by join and by template literals
primToString(x) ==
  CASE x.t = "string" -> x.v
    [] x.t = "number" -> numberToString(x.v)
    [] x.t = "boolean" -> IF x.v THEN <<"t", "r", "u", "e">> ELSE <<"f", "a", "l", "s", "e">>
    [] x.t = "null" -> <<"n", "u", "l", "l">>
    [] x.t = "undefined" -> <<"u", "n", "d", "e", "f", "i", "n", "e", "d">>
    [] OTHER -> <<"[", "o", "b", "j", "e", "c", "t", " ", "O", "b", "j", "e", "c", "t", "]">>

\* the string an array element contributes to join: null and undefined
\* contribute the empty string
joinElem(x) ==
  IF x.t \in {"null", "undefined"} THEN <<>> ELSE primToString(x)

\* Array.prototype.join(',')
RECURSIVE join(_)
join(a) ==
  IF a = <<>> THEN <<>>
  ELSE IF Len(a) = 1 THEN joinElem(a[1])
       ELSE joinElem(a[1]) \o <<",">> \o join(Tail(a))

\* the template literal `${x}`
template(x) == IF isArray(x) THEN join(x.v) ELSE primToString(x)

(* --------------------------- optionsToArgs ----------------------------- *)

\* what the caller holds before the call has come back
NoResult == [kind |-> "none", tokens |-> <<>>]
\* the caller received the returned token sequence
Returned(toks) == [kind |-> "tokens", tokens |-> toks]
\* the caller received a DockerToolboxOptionsParseError and no value
ParseError == [kind |-> "error", tokens |-> <<>>]

\* a slip: the token is put in front, optArgs.unshift(x)
unshift(arr, x) == <<x>> \o arr

\* optArgs.push(x)
push(arr, x) == Append(arr, x)

\* a slip: the key is lower-cased before the upper-case letters are looked for
flagNameLowerFirst(key) == replaceUpper(toLowerCase(key))

\* key.replace(/([A-Z])/g, '-$1').toLowerCase()
flagName(key) == toLowerCase(replaceUpper(key))

\* const optKey = '--' + prefix + key
optKeyOf(pre, key) == <<"-", "-">> \o pre \o flagName(key)

\* the entry the for-in loop is at, and its flag
curEntry == options[idx]
optKey == optKeyOf(prefix, curEntry.k)
inLoop == pc = "loop" /\ idx <= Len(options)

\* a slip: every string value is quoted
quoteAlways(s) == <<"\"">> \o s \o <<"\"">>

\* the string pushed for a string option value
quoteIfSpaced(s) ==
  IF hasWhitespace(s) THEN <<"\"">> \o s \o <<"\"">> ELSE s

\* a slip: the element check forgets the string elements
elemThrowsObjectsOnly(v) == typeOf(v) # "string" /\ typeOf(v) = "object"

\* the element check inside value.forEach: does element v make it throw
elemThrows(v) ==
  IF typeOf(v) = "string" THEN hasWhitespace(v.v)
  ELSE typeOf(v) = "object"

\* the checks on one inner key/value pair: does the pair make the loop throw
innerThrows(key, value) ==
  \/ hasWhitespace(key)
  \/ IF typeOf(value) = "string" THEN hasWhitespace(value.v)
     ELSE IF isArray(value)
          THEN \E i \in 1..Len(value.v) : elemThrows(value.v[i])
          ELSE truthy(value) /\ typeOf(value) = "object"

\* a slip: the inner loop leaves out the pairs whose value is falsy
RECURSIVE objectLoopSkipFalsy(_, _, _)
objectLoopSkipFalsy(flag, entries, acc) ==
  IF entries = <<>> THEN [args |-> acc, thrown |-> FALSE]
  ELSE LET e == Head(entries) IN
       IF innerThrows(e.k, e.v) THEN [args |-> acc, thrown |-> TRUE]
       ELSE IF ~truthy(e.v) THEN objectLoopSkipFalsy(flag, Tail(entries), acc)
       ELSE objectLoopSkipFalsy(flag, Tail(entries),
              push(push(acc, flag), e.k \o <<"=">> \o template(e.v)))

\* the inner for-in loop over a flat mapping: the tokens pushed so far and
\* whether the loop ended by throwing
RECURSIVE objectLoop(_, _, _)
objectLoop(flag, entries, acc) ==
  IF entries = <<>> THEN [args |-> acc, thrown |-> FALSE]
  ELSE LET e == Head(entries) IN
       IF innerThrows(e.k, e.v) THEN [args |-> acc, thrown |-> TRUE]
       ELSE objectLoop(flag, Tail(entries),
                       push(push(acc, flag), e.k \o <<"=">> \o template(e.v)))

\* a slip: optArgs lives outside the function and is not emptied on entry
CallKeepArgs(o, po) ==
  /\ pc = "idle"
  /\ options' = o
  /\ parseOptions' = orElse(po, Obj(<<>>))
  /\ prefix' = orElse(getProp(orElse(po, Obj(<<>>)), <<"p", "r", "e", "f", "i", "x">>), Str(<<>>)).v
  /\ optArgs' = optArgs
  /\ idx' = 1
  /\ pc' = "loop"
  /\ result' = NoResult
  /\ UNCHANGED calls
  /\ UNCHANGED facadeVars

\* optionsToArgs(o, po) is entered: parseOptions defaults to {}, the prefix
\* to '', and optArgs starts empty
Call(o, po) ==
  /\ pc = "idle"
  /\ options' = o
  /\ parseOptions' = orElse(po, Obj(<<>>))
  /\ prefix' = orElse(getProp(orElse(po, Obj(<<>>)), <<"p", "r", "e", "f", "i", "x">>), Str(<<>>)).v
  /\ optArgs' = <<>>
  /\ idx' = 1
  /\ pc' = "loop"
  /\ result' = NoResult
  /\ UNCHANGED calls
  /\ UNCHANGED facadeVars

\* a slip: a true option is followed by the text of its value
IterBooleanWithValue ==
  /\ inLoop
  /\ typeOf(curEntry.v) = "boolean"
  /\ optArgs' = IF curEntry.v.v
                THEN push(push(optArgs, optKey), primToString(curEntry.v))
                ELSE optArgs
  /\ idx' = idx + 1
  /\ UNCHANGED <<options, parseOptions, prefix, pc, result, calls>>
  /\ UNCHANGED facadeVars

\* a slip: the flag is pushed whatever the boolean is
IterBooleanAlways ==
  /\ inLoop
  /\ typeOf(curEntry.v) = "boolean"
  /\ optArgs' = push(optArgs, optKey)
  /\ idx' = idx + 1
  /\ UNCHANGED <<options, parseOptions, prefix, pc, result, calls>>
  /\ UNCHANGED facadeVars

\* typeof optionValue === 'boolean'
IterBoolean ==
  /\ inLoop
  /\ typeOf(curEntry.v) = "boolean"
  /\ optArgs' = IF curEntry.v.v THEN push(optArgs, optKey) ELSE optArgs
  /\ idx' = idx + 1
  /\ UNCHANGED <<options, parseOptions, prefix, pc, result, calls>>
  /\ UNCHANGED facadeVars

\* typeof optionValue === 'string'
IterString ==
  /\ inLoop
  /\ typeOf(curEntry.v) = "string"
  /\ optArgs' = push(push(optArgs, optKey), quoteIfSpaced(curEntry.v.v))
  /\ idx' = idx + 1
  /\ UNCHANGED <<options, parseOptions, prefix, pc, result, calls>>
  /\ UNCHANGED facadeVars

\* a slip: the number is tested for truth, so 0 adds nothing
IterNumberZeroFalsy ==
  /\ inLoop
  /\ typeOf(curEntry.v) = "number"
  /\ optArgs' = IF truthy(curEntry.v)
                THEN push(push(optArgs, optKey), numberToString(curEntry.v.v))
                ELSE optArgs
  /\ idx' = idx + 1
  /\ UNCHANGED <<options, parseOptions, prefix, pc, result, calls>>
  /\ UNCHANGED facadeVars

\* typeof optionValue === 'number'
IterNumber ==
  /\ inLoop
  /\ typeOf(curEntry.v) = "number"
  /\ optArgs' = push(push(optArgs, optKey), numberToString(curEntry.v.v))
  /\ idx' = idx + 1
  /\ UNCHANGED <<options, parseOptions, prefix, pc, result, calls>>
  /\ UNCHANGED facadeVars

\* a slip: the joined elements are quoted the way a string value is
IterArrayQuoted ==
  /\ inLoop
  /\ typeOf(curEntry.v) \notin {"boolean", "string", "number"}
  /\ isArray(curEntry.v)
  /\ optArgs' = push(push(optArgs, optKey), quoteIfSpaced(join(curEntry.v.v)))
  /\ idx' = idx + 1
  /\ UNCHANGED <<options, parseOptions, prefix, pc, result, calls>>
  /\ UNCHANGED facadeVars

\* Array.isArray(optionValue)
IterArray ==
  /\ inLoop
  /\ typeOf(curEntry.v) \notin {"boolean", "string", "number"}
  /\ isArray(curEntry.v)
  /\ optArgs' = push(push(optArgs, optKey), join(curEntry.v.v))
  /\ idx' = idx + 1
  /\ UNCHANGED <<options, parseOptions, prefix, pc, result, calls>>
  /\ UNCHANGED facadeVars

\* else if (optionValue): a flat mapping; the inner loop pushes one pair per
\* inner key, or throws, and the exception leaves optionsToArgs
IterObject ==
  /\ inLoop
  /\ typeOf(curEntry.v) \notin {"boolean", "string", "number"}
  /\ ~isArray(curEntry.v)
  /\ truthy(curEntry.v)
  /\ LET r == objectLoop(optKey, curEntry.v.v, optArgs) IN
       /\ optArgs' = r.args
       /\ IF r.thrown
          THEN pc' = "thrown" /\ result' = ParseError /\ idx' = idx
          ELSE pc' = pc /\ result' = result /\ idx' = idx + 1
  /\ UNCHANGED <<options, parseOptions, prefix, calls>>
  /\ UNCHANGED facadeVars

\* none of the branches: null or undefined adds nothing
IterFalsy ==
  /\ inLoop
  /\ typeOf(curEntry.v) \notin {"boolean", "string", "number"}
  /\ ~isArray(curEntry.v)
  /\ ~truthy(curEntry.v)
  /\ idx' = idx + 1
  /\ UNCHANGED <<options, parseOptions, prefix, pc, optArgs, result, calls>>
  /\ UNCHANGED facadeVars

\* return optArgs
Return ==
  /\ pc = "loop"
  /\ idx > Len(options)
  /\ pc' = "returned"
  /\ result' = Returned(optArgs)
  /\ UNCHANGED <<options, parseOptions, prefix, idx, optArgs, calls>>
  /\ UNCHANGED facadeVars

\* the caller notes the outcome of a finished call in its log
Note ==
  /\ pc \in {"returned", "thrown"}
  /\ Len(calls) < MaxCalls
  /\ calls' = Append(calls, [options |-> options, prefix |-> prefix,
                             result |-> result])
  /\ pc' = "idle"
  /\ UNCHANGED <<options, parseOptions, prefix, idx, optArgs, result>>
  /\ UNCHANGED facadeVars

(* ------------------------------- inputs -------------------------------- *)

\* one property of an object
P(k, v) == [k |-> k, v |-> v]

\* option names: the two the tests use, and one with a leading and a
\* doubled upper-case letter
OptionKeys == {<<"t", "e", "s", "t", "O", "p", "t", "i", "o", "n">>, <<"t", "e", "s", "t", "N", "u", "m", "b", "e", "r">>, <<"A", "B", "c">>}

StringValues == {Str(<<>>), Str(<<"h", "e", "l", "l", "o">>), Str(<<"a", " ", "b">>), Str(<<"a", "\t", "b">>)}

NumberValues == {Num(0), Num(10), Num(42), Num(0 - 3)}

ArrayValues ==
  { Arr(<<>>),
    Arr(<<Str(<<"a">>), Str(<<"b">>), Str(<<"c">>)>>),
    Arr(<<Str(<<"a", " ", "b">>), Num(1)>>),
    Arr(<<Str(<<"a", ",", "b">>), Str(<<"c">>)>>) }

\* flat mappings the encoder accepts
GoodObjectValues ==
  { Obj(<<>>),
    Obj(<<P(<<"K", "E", "Y">>, Str(<<"V", "A", "L", "U", "E">>))>>),
    Obj(<<P(<<"n">>, Num(42)), P(<<"m">>, Arr(<<Str(<<"a">>), Str(<<"b">>)>>)),
          P(<<"t">>, Bool(TRUE)), P(<<"f">>, Bool(FALSE))>>),
    Obj(<<P(<<"K">>, Null)>>) }

\* flat mappings the encoder rejects
BadObjectValues ==
  { Obj(<<P(<<"K", " ", "K">>, Str(<<"V">>))>>),
    Obj(<<P(<<"K">>, Str(<<"V", " ", "V">>))>>),
    Obj(<<P(<<"o", "k">>, Num(1)), P(<<"K">>, Arr(<<Str(<<"a">>), Str(<<"b", "\t", "c">>)>>))>>),
    Obj(<<P(<<"K">>, Obj(<<P(<<"x">>, Num(1))>>))>>),
    Obj(<<P(<<"K">>, Arr(<<Obj(<<>>)>>))>>) }

OptionValues ==
  {Bool(TRUE), Bool(FALSE), Null, Undefined} \cup StringValues
    \cup NumberValues \cup ArrayValues \cup GoodObjectValues
    \cup BadObjectValues

Entries == {P(k, v) : k \in OptionKeys, v \in OptionValues}

\* an object has each key once
distinctKeys(m) == \A i, j \in 1..Len(m) : m[i].k = m[j].k => i = j

\* configuration mappings of at most MaxEntries entries
ConfigMappings ==
  UNION {{m \in [1..n -> Entries] : distinctKeys(m)} : n \in 0..MaxEntries}

\* the second argument: left out, or with a prefix
ParseOptionValues ==
  { Undefined,
    Obj(<<P(<<"p", "r", "e", "f", "i", "x">>, Str(<<>>))>>),
    Obj(<<P(<<"p", "r", "e", "f", "i", "x">>, Str(<<"t", "e", "s", "t", "-", "p", "r", "e", "f", "i", "x", "-">>))>>) }

\* a few whole calls, for runs that call the encoder repeatedly
RepeatedMappings ==
  { <<P(<<"t", "e", "s", "t", "O", "p", "t", "i", "o", "n">>, Bool(TRUE)), P(<<"t", "e", "s", "t", "N", "u", "m", "b", "e", "r">>, Null)>>,
    <<P(<<"t", "e", "s", "t", "N", "u", "m", "b", "e", "r">>, Num(10)), P(<<"t", "e", "s", "t", "O", "p", "t", "i", "o", "n">>, Str(<<"a", " ", "b">>))>>,
    <<P(<<"t", "e", "s", "t", "O", "p", "t", "i", "o", "n">>, Arr(<<Str(<<"a">>), Str(<<"b">>)>>))>>,
    <<P(<<"t", "e", "s", "t", "N", "u", "m", "b", "e", "r">>, Num(10)),
      P(<<"t", "e", "s", "t", "O", "p", "t", "i", "o", "n">>, Obj(<<P(<<"o", "k">>, Num(1)), P(<<"K", " ", "K">>, Num(2))>>))>> }

RepeatedParseOptions == {Undefined, Obj(<<P(<<"p", "r", "e", "f", "i", "x">>, Str(<<"p", "-">>))>>)}

(* ------------------- optionsToArgs as one whole call ------------------- *)

\* one pass of the for-in loop body: optArgs after the entry, or the throw
entryArgs(pre, e, acc) ==
  LET flag == optKeyOf(pre, e.k) IN
  IF typeOf(e.v) = "boolean"
  THEN [args |-> IF e.v.v THEN push(acc, flag) ELSE acc, thrown |-> FALSE]
  ELSE IF typeOf(e.v) = "string"
  THEN [args |-> push(push(acc, flag), quoteIfSpaced(e.v.v)), thrown |-> FALSE]
  ELSE IF typeOf(e.v) = "number"
  THEN [args |-> push(push(acc, flag), numberToString(e.v.v)), thrown |-> FALSE]
  ELSE IF isArray(e.v)
  THEN [args |-> push(push(acc, flag), join(e.v.v)), thrown |-> FALSE]
  ELSE IF truthy(e.v)
  THEN objectLoop(flag, e.v.v, acc)
  ELSE [args |-> acc, thrown |-> FALSE]

\* the for-in loop from entry i on
RECURSIVE encodeFrom(_, _, _, _)
encodeFrom(pre, entries, i, acc) ==
  IF i > Len(entries) THEN [args |-> acc, thrown |-> FALSE]
  ELSE LET r == entryArgs(pre, entries[i], acc) IN
       IF r.thrown THEN r ELSE encodeFrom(pre, entries, i + 1, r.args)

\* optionsToArgs(o, po): the returned tokens, or thrown
encode(o, po) ==
  LET p == orElse(po, Obj(<<>>))
      pre == orElse(getProp(p, <<"p", "r", "e", "f", "i", "x">>), Str(<<>>)).v
  IN encodeFrom(pre, IF o.t = "object" THEN o.v ELSE <<>>, 1, <<>>)

(* ---------------------- more of JavaScript's library ------------------- *)

\* the tokens as JavaScript strings
strings(toks) == [i \in 1..Len(toks) |-> Str(toks[i])]

\* key in obj
hasProp(obj, key) == \E i \in 1..Len(obj.v) : obj.v[i].k = key

\* the entries left when obj[key] is deleted
RECURSIVE withoutKey(_, _)
withoutKey(entries, key) ==
  IF entries = <<>> THEN <<>>
  ELSE IF Head(entries).k = key THEN withoutKey(Tail(entries), key)
       ELSE <<Head(entries)>> \o withoutKey(Tail(entries), key)

\* a delete that leaves the property where it is
keepProp(obj, key) == obj

\* delete obj[key]
deleteProp(obj, key) == Obj(withoutKey(obj.v, key))

\* a[i] with i counted from 0; undefined past the end
at(a, i) == IF i + 1 \in 1..Len(a) THEN a[i + 1] ELSE Undefined

\* a.slice(n), n counted from 0
slice(a, n) == IF n >= Len(a) THEN <<>> ELSE SubSeq(a, n + 1, Len(a))

\* s.indexOf(sub), counted from 0, -1 when absent
occursAt(s, sub, i) ==
  /\ i + Len(sub) <= Len(s)
  /\ \A j \in 1..Len(sub) : s[i + j] = sub[j]
indexOf(s, sub) ==
  IF \E i \in 0..Len(s) : occursAt(s, sub, i)
  THEN CHOOSE i \in 0..Len(s) :
         occursAt(s, sub, i) /\ \A j \in 0..(i - 1) : ~occursAt(s, sub, j)
  ELSE 0 - 1

\* a position clamped into the string, as substr and substring do
clamp(s, i) == IF i < 0 THEN 0 ELSE IF i > Len(s) THEN Len(s) ELSE i

\* s.substring(a, b): the arguments are clamped and swapped when a > b
substring(s, a, b) ==
  LET x == clamp(s, a)
      y == clamp(s, b)
      lo == IF x < y THEN x ELSE y
      hi == IF x < y THEN y ELSE x
  IN SubSeq(s, lo + 1, hi)

\* s.substr(a) for a >= 0
substrFrom(s, a) == SubSeq(s, clamp(s, a) + 1, Len(s))

\* s.substr(0, n)
substrTo(s, n) == SubSeq(s, 1, clamp(s, n))

\* s.split(/\r\n|\n/)
RECURSIVE splitLines(_, _)
splitLines(s, cur) ==
  IF s = <<>> THEN <<cur>>
  ELSE IF Len(s) >= 2 /\ s[1] = "\r" /\ s[2] = "\n"
       THEN <<cur>> \o splitLines(SubSeq(s, 3, Len(s)), <<>>)
       ELSE IF s[1] = "\n"
            THEN <<cur>> \o splitLines(Tail(s), <<>>)
            ELSE splitLines(Tail(s), Append(cur, s[1]))

(* ------------------------ the derived RegExp --------------------------- *)

\* The pattern of DockerMachine.env is three pieces of the sentinel line
\* used as RegExp source, with the groups ([a-z_]+) and (.*?) between them
\* and $ at the end, compiled with the flag i.  Of the characters that mean
\* something in RegExp source, the pieces modelled here can hold $ (end of
\* input), ^ (start of input) and . (any character but a line terminator);
\* every other character of a piece stands for itself, in either case.

\* [a-z_] under the flag i
isIdentChar(c) ==
  c = "_" \/ \E i \in 1..Len(LowerChars) : LowerChars[i] = lowerChar(c)

\* a character the dot does not match
isLineTerminator(c) == c \in {"\n", "\r"}

\* the offset after the piece has matched at offset pos, -1 when it does not
RECURSIVE pieceEnd(_, _, _)
pieceEnd(piece, line, pos) ==
  IF piece = <<>> THEN pos
  ELSE LET c == Head(piece) IN
       IF c = "$"
       THEN IF pos = Len(line) THEN pieceEnd(Tail(piece), line, pos) ELSE 0 - 1
       ELSE IF c = "^"
       THEN IF pos = 0 THEN pieceEnd(Tail(piece), line, pos) ELSE 0 - 1
       ELSE IF pos >= Len(line) THEN 0 - 1
       ELSE IF c = "."
       THEN IF isLineTerminator(line[pos + 1]) THEN 0 - 1
            ELSE pieceEnd(Tail(piece), line, pos + 1)
       ELSE IF lowerChar(c) = lowerChar(line[pos + 1])
            THEN pieceEnd(Tail(piece), line, pos + 1)
            ELSE 0 - 1

\* the whole pattern matches from offset s with groups of l1 and l2 characters
matchesWith(re, line, s, l1, l2) ==
  LET p1 == pieceEnd(re.pre, line, s) IN
  /\ p1 >= 0
  /\ p1 + l1 <= Len(line)
  /\ \A j \in 1..l1 : isIdentChar(line[p1 + j])
  /\ LET p2 == pieceEnd(re.mid, line, p1 + l1) IN
     /\ p2 >= 0
     /\ p2 + l2 <= Len(line)
     /\ \A j \in 1..l2 : ~isLineTerminator(line[p2 + j])
     /\ pieceEnd(re.suf, line, p2 + l2) = Len(line)

\* the characters a piece consumes: one each, none for an anchor
width(piece) == Cardinality({i \in 1..Len(piece) : piece[i] \notin {"$", "^"}})

\* some second group completes the match; the pattern ends at the end of the
\* line, so the tail piece fixes where the second group ends
matchesFrom(re, line, s, l1) ==
  LET p1 == pieceEnd(re.pre, line, s)
      p2 == pieceEnd(re.mid, line, p1 + l1)
      l2 == Len(line) - width(re.suf) - p2
  IN /\ p1 >= 0
     /\ p1 + l1 <= Len(line)
     /\ p2 >= 0
     /\ l2 >= 0
     /\ matchesWith(re, line, s, l1, l2)

matchesAt(re, line, s) ==
  /\ pieceEnd(re.pre, line, s) >= 0
  /\ \E l1 \in 1..Len(line) : matchesFrom(re, line, s, l1)

\* line.match(regExp): the leftmost match, the first group as long and the
\* second as short as a match allows
match(re, line) ==
  IF \E s \in 0..Len(line) : matchesAt(re, line, s)
  THEN LET s == CHOOSE x \in 0..Len(line) :
                  matchesAt(re, line, x)
                    /\ \A y \in 0..(x - 1) : ~matchesAt(re, line, y)
           l1 == CHOOSE x \in 1..Len(line) :
                   matchesFrom(re, line, s, x)
                     /\ \A y \in (x + 1)..Len(line) : ~matchesFrom(re, line, s, y)
           l2 == CHOOSE x \in 0..Len(line) :
                   matchesWith(re, line, s, l1, x)
                     /\ \A y \in 0..(x - 1) : ~matchesWith(re, line, s, l1, y)
           p1 == pieceEnd(re.pre, line, s)
           p2 == pieceEnd(re.mid, line, p1 + l1)
       IN [found |-> TRUE,
           g1 |-> SubSeq(line, p1 + 1, p1 + l1),
           g2 |-> SubSeq(line, p2 + 1, p2 + l2)]
  ELSE [found |-> FALSE, g1 |-> <<>>, g2 |-> <<>>]

(* ------------------- DockerMachine.env: the parser --------------------- *)

DOCKER_MACHINE_NAME == <<"D", "O", "C", "K", "E", "R", "_", "M", "A", "C", "H", "I", "N", "E", "_", "N", "A", "M", "E">>

\* an environment mapping with no entry
EmptyEnv == [x \in {} |-> <<>>]

\* machineEnv[envVar] = envValue
setEnv(env, k, v) == [x \in DOMAIN env \cup {k} |-> IF x = k THEN v ELSE env[x]]

\* lines.find(line => line.indexOf(DOCKER_MACHINE_NAME) > -1): its position,
\* 0 when find returns undefined
findSentinel(lines) ==
  IF \E i \in 1..Len(lines) : indexOf(lines[i], DOCKER_MACHINE_NAME) > 0 - 1
  THEN CHOOSE i \in 1..Len(lines) :
         /\ indexOf(lines[i], DOCKER_MACHINE_NAME) > 0 - 1
         /\ \A j \in 1..(i - 1) : indexOf(lines[j], DOCKER_MACHINE_NAME) = 0 - 1
  ELSE 0

\* regExpStr, piece by piece
deriveRegExp(test, name) ==
  LET testStartIndex == indexOf(test, DOCKER_MACHINE_NAME)
      testEndIndex == testStartIndex + Len(DOCKER_MACHINE_NAME)
      nameStartIndex == indexOf(test, name)
      nameEndIndex == nameStartIndex + Len(name)
  IN [pre |-> substrTo(test, testStartIndex),
      mid |-> substring(test, testEndIndex, nameStartIndex),
      suf |-> substrFrom(test, nameEndIndex)]

\* for (const line of lines) { ... machineEnv[envVar] = envValue ... }
RECURSIVE collectEnv(_, _, _, _)
collectEnv(re, lines, i, env) ==
  IF i > Len(lines) THEN env
  ELSE LET m == match(re, lines[i]) IN
       collectEnv(re, lines, i + 1,
                  IF m.found THEN setEnv(env, m.g1, m.g2) ELSE env)

\* a callback that returns the empty mapping when no line has the sentinel
parseEnvLenient(text, name) ==
  LET lines == splitLines(text, <<>>)
      t == findSentinel(lines)
  IN IF t = 0 THEN [thrown |-> FALSE, env |-> EmptyEnv]
     ELSE [thrown |-> FALSE,
           env |-> collectEnv(deriveRegExp(lines[t], name), lines, 1, EmptyEnv)]

\* the callback given to result.then: the mapping it returns, or thrown when
\* test is undefined and test.indexOf raises a TypeError
parseEnv(text, name) ==
  LET lines == splitLines(text, <<>>)
      t == findSentinel(lines)
  IN IF t = 0 THEN [thrown |-> TRUE, env |-> EmptyEnv]
     ELSE [thrown |-> FALSE,
           env |-> collectEnv(deriveRegExp(lines[t], name), lines, 1, EmptyEnv)]

(* ------------------- subprocesses and their promises ------------------- *)

\* most lines of standard output an env query is fed
MaxLines == 2

\* the chunks the events subprocess writes in one run
MaxChunks == 2

\* the _read calls on one LineReadStream
MaxReads == 3

\* the characters the upstream of a LineReadStream writes
MaxFed == 6

\* highWaterMark of the LineReadStream, in characters
HighWaterMark == 2

Pending == [state |-> "pending", value |-> EmptyEnv, reason |-> <<>>]
Fulfilled(v) == [state |-> "fulfilled", value |-> v, reason |-> <<>>]
Rejected(r) == [state |-> "rejected", value |-> EmptyEnv, reason |-> r]

\* resolve and reject do nothing to a promise that is already settled
settle(p, outcome) == IF p.state = "pending" THEN outcome ELSE p

\* no subprocess yet
NoChild ==
  [state |-> "none", program |-> <<>>, args |-> <<>>, env |-> Undefined,
   windowsHide |-> FALSE, errored |-> FALSE, code |-> Undefined]

\* an environment mapping as the env of the spawn options
EnvValue(m) == [t |-> "env", v |-> m]

\* _spawnDockerToolbox: Object.assign({}, spawnOptions, {windowsHide: true})
\* and spawn(program, args, spawnOptions)
spawnDockerToolbox(program, args, env) ==
  [state |-> "running", program |-> program, args |-> args, env |-> env,
   windowsHide |-> TRUE, errored |-> FALSE, code |-> Undefined]

spawnDockerCompose(args, env) ==
  spawnDockerToolbox(<<"d", "o", "c", "k", "e", "r", "-", "c", "o", "m", "p", "o", "s", "e">>, args, env)

spawnDockerMachine(args, env) ==
  spawnDockerToolbox(<<"d", "o", "c", "k", "e", "r", "-", "m", "a", "c", "h", "i", "n", "e">>, args, env)

\* the environment of this process
ProcessEnv == (<<"P", "A", "T", "H">> :> <<"/", "b", "i", "n">>) @@ (<<"H", "O", "M", "E">> :> <<"/", "r", "o", "o", "t">>)

\* the environment child_process.spawn gives the subprocess: options.env, or
\* the environment of this process when options.env is null or undefined
childEnv(c) == IF c.env.t = "env" THEN c.env.v ELSE ProcessEnv

\* new Error(program + ' responded with non-zero code ' + code)
nonZeroMessage(program, code) ==
  program \o <<" ", "r", "e", "s", "p", "o", "n", "d", "e", "d", " ", "w", "i", "t", "h", " ", "n", "o", "n", "-", "z", "e", "r", "o", " ", "c", "o", "d", "e", " ">> \o primToString(code)

\* the message of the error a failed spawn reports
SpawnErrorMessage == <<"s", "p", "a", "w", "n", " ", "E", "N", "O", "E", "N", "T">>

\* the message of the TypeError raised by test.indexOf when test is undefined
TypeErrorMessage == <<"C", "a", "n", "n", "o", "t", " ", "r", "e", "a", "d", " ", "p", "r", "o", "p", "e", "r", "t", "y", " ", "'", "i", "n", "d", "e", "x", "O", "f", "'", " ", "o", "f", " ", "u", "n", "d", "e", "f", "i", "n", "e", "d">>

NoQuery == [kind |-> "none", name |-> <<>>]
NoDerived == [env |-> Pending, ret |-> Pending]
NoCall == [op |-> <<>>, args |-> <<>>, threw |-> FALSE]
NoCompose == [made |-> FALSE, configPaths |-> <<>>, bound |-> FALSE]
NoHandle == [made |-> FALSE, name |-> <<>>, env |-> EmptyEnv]

\* no second refreshEnv call yet
NoInflight ==
  [child |-> NoChild, promise |-> Pending, out |-> <<>>, env |-> Pending,
   ret |-> Pending, during |-> FALSE, after |-> FALSE]

\* events() has not been called
NoStream ==
  [state |-> "none", currentLine |-> <<>>, fed |-> <<>>, delivered |-> <<>>,
   reason |-> <<>>, uncaught |-> FALSE, exited |-> FALSE, chunks |-> 0]

\* no chunk handler of a LineReadStream is running
NoRun == [pc |-> "idle", queue |-> <<>>, chunkStr |-> <<>>, chunk |-> <<>>]

\* no LineReadStream, and with made the one images() constructs: no _read
\* yet, no chunkHandler on the upstream, nothing buffered
NoLrs ==
  [made |-> FALSE, reading |-> FALSE, attached |-> {}, lines |-> <<>>,
   fed |-> <<>>, emitted |-> <<>>, buffered |-> <<>>, run |-> NoRun]

FacadeInit ==
  /\ compose = NoCompose
  /\ handle = NoHandle
  /\ call = NoCall
  /\ callerOptions = Undefined
  /\ child = NoChild
  /\ promise = Pending
  /\ out = <<>>
  /\ query = NoQuery
  /\ derived = NoDerived
  /\ inflight = NoInflight
  /\ stream = NoStream
  /\ lrs = NoLrs

\* the operations after which this model makes no further facade call
TerminalOps ==
  {<<"b", "u", "i", "l", "d">>, <<"d", "o", "w", "n">>, <<"l", "o", "g", "s">>, <<"p", "a", "u", "s", "e">>, <<"p", "s">>, <<"p", "u", "l", "l">>, <<"p", "u", "s", "h">>, <<"r", "e", "s", "t", "a", "r", "t">>,
   <<"s", "t", "a", "r", "t">>, <<"s", "t", "o", "p">>, <<"t", "o", "p">>, <<"u", "n", "p", "a", "u", "s", "e">>, <<"u", "p">>, <<"b", "u", "n", "d", "l", "e">>, <<"c", "o", "n", "f", "i", "g">>,
   <<"e", "v", "e", "n", "t", "s">>, <<"e", "x", "e", "c">>, <<"i", "m", "a", "g", "e", "s">>, <<"k", "i", "l", "l">>, <<"r", "m">>, <<"r", "u", "n">>, <<"v", "e", "r", "s", "i", "o", "n">>,
   <<"c", "r", "e", "a", "t", "e">>}

\* nothing is in flight: the subprocess, if any, has settled its promise and
\* the callbacks chained on it have run
quiescent ==
  /\ child.state = "none" \/ promise.state # "pending"
  /\ query.kind # "none" => derived.env.state # "pending"
  /\ query.kind \in {"get", "refresh"} => derived.ret.state # "pending"

\* a facade call may be made
mayCall == quiescent /\ call.op \notin TerminalOps

\* the call spawned subprocess c
Spawned(op, args, after, c) ==
  /\ call' = [op |-> op, args |-> args, threw |-> FALSE]
  /\ callerOptions' = after
  /\ child' = c
  /\ promise' = Pending
  /\ out' = <<>>
  /\ query' = NoQuery
  /\ derived' = NoDerived

\* a call that spawns its subprocess and raises the error after that
ThrewAfterSpawn(op, args, after) ==
  /\ call' = [op |-> op, args |-> args, threw |-> TRUE]
  /\ callerOptions' = after
  /\ child' = spawnDockerToolbox(op, <<>>, Undefined)
  /\ promise' = Pending
  /\ UNCHANGED <<out, query, derived>>

\* the call raised an error before anything was spawned
Threw(op, args, after) ==
  /\ call' = [op |-> op, args |-> args, threw |-> TRUE]
  /\ callerOptions' = after
  /\ UNCHANGED <<child, promise, out, query, derived>>

(* --------------------------- DockerCompose ----------------------------- *)

\* new DockerCompose({configPath, machine})
ConstructCompose(configPath, machine) ==
  /\ ~compose.made
  /\ quiescent
  /\ machine => handle.made
  /\ compose' =
       [made |-> TRUE,
        configPaths |-> IF truthy(configPath)
                        THEN IF typeOf(configPath) = "string" THEN <<configPath>>
                             ELSE IF isArray(configPath) THEN configPath.v
                             ELSE <<>>
                        ELSE <<>>,
        bound |-> machine]
  /\ UNCHANGED <<handle, call, callerOptions, child, promise, out, query,
                 derived, encoderVars, streamVars>>

\* this._configPaths.map(confPath => ['-f', confPath]).reduce(concat, [])
RECURSIVE configArgs(_)
configArgs(paths) ==
  IF paths = <<>> THEN <<>>
  ELSE <<Str(<<"-", "f">>), Head(paths)>> \o configArgs(Tail(paths))

\* DockerCompose._spawn(command, args)
composeSpawn(command, args) ==
  spawnDockerCompose(configArgs(compose.configPaths) \o <<Str(command)>> \o args,
                     IF compose.bound THEN EnvValue(handle.env) ELSE Null)

\* the first argument is there and is not a string: it is the options
optionsFirst(args) == Len(args) > 0 /\ typeOf(args[1]) # "string"

\* DockerCompose._serviceCommandSpawn(command, ...args): the arguments given
\* to _spawn, or thrown
serviceCommandArgs(args) ==
  LET opts == IF optionsFirst(args) THEN args[1] ELSE Obj(<<>>)
      services == IF Len(args) > 0 THEN Tail(args) ELSE <<>>
      enc == encode(opts, Undefined)
  IN [thrown |-> enc.thrown, args |-> strings(enc.args) \o services]

\* an operation that is _serviceCommandSpawn(command, ...args) and no more
serviceCommand(op, command, args, given) ==
  LET r == serviceCommandArgs(args)
      after == IF optionsFirst(given) THEN given[1] ELSE Undefined
  IN IF r.thrown THEN Threw(op, given, after)
     ELSE Spawned(op, given, after, composeSpawn(command, r.args))

\* build, down, logs, pause, ps, pull, push, restart, start, stop, top,
\* unpause, up
ServiceCommand(command, args) ==
  /\ compose.made /\ mayCall
  /\ serviceCommand(command, command, args, args)
  /\ UNCHANGED <<compose, handle, encoderVars, streamVars>>

\* bundle(options) and config(options)
OptionsCommand(command, opts) ==
  /\ compose.made /\ mayCall
  /\ LET enc == encode(opts, Undefined) IN
       IF enc.thrown THEN Threw(command, <<opts>>, opts)
       ELSE Spawned(command, <<opts>>, opts,
                    composeSpawn(command, strings(enc.args)))
  /\ UNCHANGED <<compose, handle, encoderVars, streamVars>>

\* events(...services)
Events(services) ==
  /\ compose.made /\ mayCall
  /\ serviceCommand(<<"e", "v", "e", "n", "t", "s">>, <<"e", "v", "e", "n", "t", "s">>,
                    <<Obj(<<P(<<"j", "s", "o", "n">>, Bool(TRUE))>>)>> \o services, services)
  /\ stream' = [NoStream EXCEPT !.state = IF call'.threw THEN "none" ELSE "open"]
  /\ UNCHANGED <<compose, handle, encoderVars, inflight, lrs>>

\* images(idsOnly)
Images(idsOnly) ==
  /\ compose.made /\ mayCall
  /\ IF truthy(idsOnly)
     THEN serviceCommand(<<"i", "m", "a", "g", "e", "s">>, <<"i", "m", "a", "g", "e", "s">>,
                         <<Obj(<<P(<<"q", "u", "i", "e", "t">>, Bool(TRUE))>>)>>, <<idsOnly>>)
     ELSE Threw(<<"i", "m", "a", "g", "e", "s">>, <<idsOnly>>, Undefined)
  /\ lrs' = [NoLrs EXCEPT !.made = ~call'.threw]
  /\ UNCHANGED <<compose, handle, encoderVars, inflight, stream>>

\* version(options)
Version(opts) ==
  /\ compose.made /\ mayCall
  /\ serviceCommand(<<"v", "e", "r", "s", "i", "o", "n">>, <<"v", "e", "r", "s", "i", "o", "n">>, <<orElse(opts, Obj(<<>>))>>,
                    <<opts>>)
  /\ UNCHANGED <<compose, handle, encoderVars, streamVars>>

\* exec(...args) and run(...args)
execOrRun(command, args) ==
  LET stringFirst == Len(args) > 0 /\ typeOf(args[1]) = "string"
      opts == IF optionsFirst(args) THEN args[1] ELSE Obj(<<>>)
      cmd == IF Len(args) = 0 THEN Undefined
             ELSE IF stringFirst THEN orElse(at(args, 1), Str(<<>>))
             ELSE orElse(at(args, 2), Str(<<>>))
      runArgs == IF stringFirst THEN slice(args, 2) ELSE slice(args, 3)
      special == IF Len(args) > 0 /\ truthy(getProp(opts, <<"d", "i", "s", "a", "b", "l", "e", "P", "s", "e", "u", "d", "o", "T", "t", "y">>))
                 THEN <<Str(<<"-", "T">>)>> ELSE <<>>
      left == deleteProp(opts, <<"d", "i", "s", "a", "b", "l", "e", "P", "s", "e", "u", "d", "o", "T", "t", "y">>)
      enc == encode(left, Undefined)
      after == IF optionsFirst(args) THEN left ELSE Undefined
  IN IF Len(args) > 0 /\ enc.thrown THEN Threw(command, args, after)
     ELSE Spawned(command, args, after,
            composeSpawn(command,
              (IF Len(args) > 0 THEN strings(enc.args) \o special ELSE <<>>)
                \o <<cmd>> \o runArgs))

Exec(args) ==
  /\ compose.made /\ mayCall
  /\ execOrRun(<<"e", "x", "e", "c">>, args)
  /\ UNCHANGED <<compose, handle, encoderVars, streamVars>>

Run(args) ==
  /\ compose.made /\ mayCall
  /\ execOrRun(<<"r", "u", "n">>, args)
  /\ UNCHANGED <<compose, handle, encoderVars, streamVars>>

\* kill(...args)
Kill(args) ==
  /\ compose.made /\ mayCall
  /\ LET opts == IF optionsFirst(args) THEN args[1] ELSE Obj(<<>>)
         services == IF optionsFirst(args) THEN Tail(args) ELSE args
         has == optionsFirst(args) /\ hasProp(opts, <<"s", "i", "g", "n", "a", "l">>)
         special == IF has THEN <<Str(<<"-", "s">>), getProp(opts, <<"s", "i", "g", "n", "a", "l">>)>>
                    ELSE <<>>
         left == IF has THEN deleteProp(opts, <<"s", "i", "g", "n", "a", "l">>) ELSE opts
         enc == encode(left, Undefined)
         after == IF optionsFirst(args) THEN left ELSE Undefined
     IN IF Len(args) > 0 /\ enc.thrown THEN Threw(<<"k", "i", "l", "l">>, args, after)
        ELSE Spawned(<<"k", "i", "l", "l">>, args, after,
               composeSpawn(<<"k", "i", "l", "l">>,
                 (IF Len(args) > 0 THEN strings(enc.args) \o special ELSE <<>>)
                   \o services))
  /\ UNCHANGED <<compose, handle, encoderVars, streamVars>>

\* rm(...args)
Rm(args) ==
  /\ compose.made /\ mayCall
  /\ LET opts == IF optionsFirst(args) THEN args[1] ELSE Obj(<<>>)
         services == IF optionsFirst(args) THEN Tail(args) ELSE args
         special == IF optionsFirst(args)
                        /\ truthy(getProp(opts, <<"r", "e", "m", "o", "v", "e", "V", "o", "l", "u", "m", "e", "s">>))
                    THEN <<Str(<<"-", "v">>)>> ELSE <<>>
         left == IF optionsFirst(args) THEN deleteProp(opts, <<"r", "e", "m", "o", "v", "e", "V", "o", "l", "u", "m", "e", "s">>)
                 ELSE opts
         enc == encode(left, Undefined)
         after == IF optionsFirst(args) THEN left ELSE Undefined
     IN IF Len(args) > 0 /\ enc.thrown THEN Threw(<<"r", "m">>, args, after)
        ELSE Spawned(<<"r", "m">>, args, after,
               composeSpawn(<<"r", "m">>,
                 (IF Len(args) > 0 THEN strings(enc.args) \o special ELSE <<>>)
                   \o services))
  /\ UNCHANGED <<compose, handle, encoderVars, streamVars>>

(* --------------------------- DockerMachine ----------------------------- *)

\* DockerMachine.env(name, options) up to its return: the subprocess is
\* spawned with ['env', name] and {}, and the callbacks are registered
envQuery(kind, name) ==
  /\ child' = spawnDockerMachine(<<Str(<<"e", "n", "v">>), Str(name)>>, Undefined)
  /\ promise' = Pending
  /\ out' = <<>>
  /\ query' = [kind |-> kind, name |-> name]
  /\ derived' = NoDerived

\* DockerMachine.env(name, options)
MachineEnv(name, opts) ==
  /\ mayCall
  /\ envQuery("env", name)
  /\ call' = [op |-> <<"e", "n", "v">>, args |-> <<Str(name), opts>>, threw |-> FALSE]
  /\ callerOptions' = opts
  /\ UNCHANGED <<compose, handle, encoderVars, streamVars>>

\* DockerMachine.get(name, options, envOptions)
MachineGet(name, envOpts) ==
  /\ mayCall
  /\ envQuery("get", name)
  /\ call' = [op |-> <<"g", "e", "t">>, args |-> <<Str(name), Undefined, envOpts>>,
              threw |-> FALSE]
  /\ callerOptions' = envOpts
  /\ UNCHANGED <<compose, handle, encoderVars, streamVars>>

\* machine.refreshEnv(options)
RefreshEnv(opts) ==
  /\ mayCall
  /\ handle.made
  /\ envQuery("refresh", handle.name)
  /\ call' = [op |-> <<"r", "e", "f", "r", "e", "s", "h", "E", "n", "v">>, args |-> <<opts>>, threw |-> FALSE]
  /\ callerOptions' = opts
  /\ UNCHANGED <<compose, handle, encoderVars, streamVars>>

\* for (const port of openPort) { push('--open-port'); push(port) }
RECURSIVE openPortArgs(_)
openPortArgs(ports) ==
  IF ports = <<>> THEN <<>>
  ELSE <<Str(<<"-", "-", "o", "p", "e", "n", "-", "p", "o", "r", "t">>), Head(ports)>> \o openPortArgs(Tail(ports))

\* DockerMachine.create(name, driver, options) up to its return
Create(name, driver, opts) ==
  /\ mayCall
  /\ LET has == driver = <<"a", "z", "u", "r", "e">> /\ hasProp(opts, <<"o", "p", "e", "n", "P", "o", "r", "t">>)
         openPort == getProp(opts, <<"o", "p", "e", "n", "P", "o", "r", "t">>)
         left == IF has THEN deleteProp(opts, <<"o", "p", "e", "n", "P", "o", "r", "t">>) ELSE opts
         special == IF has
                    THEN IF isArray(openPort) THEN openPortArgs(openPort.v)
                         ELSE <<Str(<<"-", "-", "o", "p", "e", "n", "-", "p", "o", "r", "t">>), openPort>>
                    ELSE <<>>
         enc == encode(left, Obj(<<P(<<"p", "r", "e", "f", "i", "x">>, Str(driver \o <<"-">>))>>))
         given == <<Str(name), Str(driver), opts>>
     IN IF enc.thrown THEN Threw(<<"c", "r", "e", "a", "t", "e">>, given, left)
        ELSE Spawned(<<"c", "r", "e", "a", "t", "e">>, given, left,
               spawnDockerMachine(
                 <<Str(<<"c", "r", "e", "a", "t", "e">>), Str(<<"-", "-", "d", "r", "i", "v", "e", "r">>), Str(driver)>>
                   \o strings(enc.args) \o special \o <<Str(name)>>,
                 Undefined))
  /\ UNCHANGED <<compose, handle, encoderVars, streamVars>>

\* a callback of create that queries the environment whatever became of
\* the create subprocess
ThenCreateAlways ==
  /\ call.op = <<"c", "r", "e", "a", "t", "e">>
  /\ ~call.threw
  /\ query.kind = "none"
  /\ promise.state # "pending"
  /\ derived.ret.state = "pending"
  /\ envQuery("get", call.args[1].v)
  /\ UNCHANGED <<compose, handle, call, callerOptions, encoderVars, streamVars>>

\* the callback create chained on its subprocess runs and calls
\* DockerMachine.get(name), or the rejection passes through
ThenCreate ==
  /\ call.op = <<"c", "r", "e", "a", "t", "e">>
  /\ ~call.threw
  /\ query.kind = "none"
  /\ promise.state # "pending"
  /\ derived.ret.state = "pending"
  /\ IF promise.state = "rejected"
     THEN /\ derived' = [derived EXCEPT !.ret = Rejected(promise.reason)]
          /\ UNCHANGED <<child, promise, out, query>>
     ELSE envQuery("get", call.args[1].v)
  /\ UNCHANGED <<compose, handle, call, callerOptions, encoderVars, streamVars>>

(* ----------------------- events of the subprocess ---------------------- *)

\* the number of line feeds in the text
RECURSIVE lineFeeds(_)
lineFeeds(s) ==
  IF s = <<>> THEN 0
  ELSE (IF Head(s) = "\n" THEN 1 ELSE 0) + lineFeeds(Tail(s))

\* stdout 'data' of an env query: out += chunk
StdoutData(chunk) ==
  /\ child.state = "running"
  /\ query.kind # "none"
  /\ lineFeeds(out) < MaxLines
  /\ out' = out \o chunk
  /\ UNCHANGED <<compose, handle, call, callerOptions, child, promise, query,
                 derived, encoderVars, streamVars>>

\* childProcess 'error': reject(err)
ChildError ==
  /\ child.state = "running"
  /\ child' = [child EXCEPT !.state = "failed", !.errored = TRUE]
  /\ promise' = settle(promise, Rejected(SpawnErrorMessage))
  /\ UNCHANGED <<compose, handle, call, callerOptions, out, query, derived,
                 encoderVars, streamVars>>

\* a close handler that resolves whenever the code is falsy
ChildCloseFalsy(code) ==
  /\ child.state \in {"running", "failed"}
  /\ child' = [child EXCEPT !.state = "closed", !.code = code]
  /\ promise' =
       settle(promise,
              IF ~truthy(code) THEN Fulfilled(EmptyEnv)
              ELSE Rejected(nonZeroMessage(child.program, code)))
  /\ UNCHANGED <<compose, handle, call, callerOptions, out, query, derived,
                 encoderVars, streamVars>>

\* childProcess 'close': resolve() when code === 0, else reject(new Error(..))
ChildClose(code) ==
  /\ child.state \in {"running", "failed"}
  /\ child' = [child EXCEPT !.state = "closed", !.code = code]
  /\ promise' =
       settle(promise,
              IF code.t = "number" /\ code.v = 0 THEN Fulfilled(EmptyEnv)
              ELSE Rejected(nonZeroMessage(child.program, code)))
  /\ UNCHANGED <<compose, handle, call, callerOptions, out, query, derived,
                 encoderVars, streamVars>>

\* the promise DockerMachine.env returns, once the spawn promise p has
\* settled and the parser has given r: the rejection passes through, a
\* TypeError of the parser rejects, else the parsed mapping
envResult(p, r) ==
  IF p.state = "rejected" THEN Rejected(p.reason)
  ELSE IF r.thrown THEN Rejected(TypeErrorMessage)
  ELSE Fulfilled(r.env)

\* the env promise of the query of the call, or of that of a second
\* refreshEnv, settles as e
settleEnv(first, e) ==
  IF first
  THEN /\ derived' = [derived EXCEPT !.env = e]
       /\ UNCHANGED inflight
  ELSE /\ inflight' = [inflight EXCEPT !.env = e]
       /\ UNCHANGED derived

\* the callback DockerMachine.env chained on the spawn promise runs, or the
\* rejection passes through: for the query of the call (slot 1) and for
\* that of a second refreshEnv (slot 2)
ThenParseOf(slot) ==
  /\ slot = 1 => query.kind # "none"
  /\ IF slot = 1 THEN promise.state # "pending"
     ELSE inflight.promise.state # "pending"
  /\ IF slot = 1 THEN derived.env.state = "pending"
     ELSE inflight.env.state = "pending"
  /\ settleEnv(slot = 1,
               envResult(IF slot = 1 THEN promise ELSE inflight.promise,
                         parseEnv(IF slot = 1 THEN out ELSE inflight.out,
                                  IF slot = 1 THEN query.name
                                  ELSE handle.name)))
  /\ UNCHANGED <<compose, handle, call, callerOptions, child, promise, out,
                 query, stream, lrs, encoderVars>>

ThenParse == ThenParseOf(1)

\* a callback that adds the new entries to the ones the handle has
ThenHandleMerging ==
  /\ query.kind \in {"get", "refresh"}
  /\ derived.env.state # "pending"
  /\ derived.ret.state = "pending"
  /\ IF derived.env.state = "rejected"
     THEN /\ derived' = [derived EXCEPT !.ret = Rejected(derived.env.reason)]
          /\ UNCHANGED handle
     ELSE /\ derived' = [derived EXCEPT !.ret = Fulfilled(derived.env.value)]
          /\ handle' = [made |-> TRUE, name |-> query.name,
                        env |-> derived.env.value @@ handle.env]
  /\ UNCHANGED <<compose, call, callerOptions, child, promise, out, query,
                 encoderVars, streamVars>>

\* the callback get or refreshEnv chained on the env promise runs, or the
\* rejection passes through
ThenHandle ==
  /\ query.kind \in {"get", "refresh"}
  /\ derived.env.state # "pending"
  /\ derived.ret.state = "pending"
  /\ IF derived.env.state = "rejected"
     THEN /\ derived' = [derived EXCEPT !.ret = Rejected(derived.env.reason)]
          /\ UNCHANGED handle
     ELSE /\ derived' = [derived EXCEPT !.ret = Fulfilled(derived.env.value)]
          /\ handle' = [made |-> TRUE, name |-> query.name,
                        env |-> derived.env.value]
  /\ UNCHANGED <<compose, call, callerOptions, child, promise, out, query,
                 encoderVars, streamVars>>

(* ------------------- a second refreshEnv under way --------------------- *)

\* the first refreshEnv call is under way, its callback has not run yet
firstUnderWay == query.kind = "refresh" /\ derived.ret.state = "pending"

\* the first refreshEnv call has run its callback
firstDone == query.kind = "refresh" /\ derived.ret.state # "pending"

\* machine.refreshEnv() called again, whether or not the first call is still
\* under way: a second docker-machine env subprocess with its own promises
Refresh2 ==
  /\ handle.made
  /\ inflight.child.state = "none"
  /\ inflight' =
       [NoInflight EXCEPT
          !.child = spawnDockerMachine(<<Str(<<"e", "n", "v">>), Str(handle.name)>>,
                                       Undefined),
          !.during = firstUnderWay]
  /\ UNCHANGED <<compose, handle, call, callerOptions, child, promise, out,
                 query, derived, stream, lrs, encoderVars>>

\* stdout 'data' of the second query: out += chunk
Data2(chunk) ==
  /\ inflight.child.state = "running"
  /\ lineFeeds(inflight.out) < MaxLines
  /\ inflight' = [inflight EXCEPT !.out = @ \o chunk]
  /\ UNCHANGED <<compose, handle, call, callerOptions, child, promise, out,
                 query, derived, stream, lrs, encoderVars>>

\* 'error' of the second subprocess
Error2 ==
  /\ inflight.child.state = "running"
  /\ inflight' =
       [inflight EXCEPT
          !.child = [@ EXCEPT !.state = "failed", !.errored = TRUE],
          !.promise = settle(@, Rejected(SpawnErrorMessage))]
  /\ UNCHANGED <<compose, handle, call, callerOptions, child, promise, out,
                 query, derived, stream, lrs, encoderVars>>

\* 'close' of the second subprocess
Close2(code) ==
  /\ inflight.child.state \in {"running", "failed"}
  /\ inflight' =
       [inflight EXCEPT
          !.child = [@ EXCEPT !.state = "closed", !.code = code],
          !.promise =
             settle(@, IF code.t = "number" /\ code.v = 0
                       THEN Fulfilled(EmptyEnv)
                       ELSE Rejected(nonZeroMessage(inflight.child.program,
                                                    code)))]
  /\ UNCHANGED <<compose, handle, call, callerOptions, child, promise, out,
                 query, derived, stream, lrs, encoderVars>>

\* a callback that leaves env alone when the first call has finished
ThenHandle2Stale ==
  /\ inflight.env.state # "pending"
  /\ inflight.ret.state = "pending"
  /\ IF inflight.env.state = "rejected"
     THEN /\ inflight' = [inflight EXCEPT
                            !.ret = Rejected(inflight.env.reason)]
          /\ UNCHANGED handle
     ELSE /\ inflight' = [inflight EXCEPT
                            !.ret = Fulfilled(inflight.env.value),
                            !.after = firstDone]
          /\ handle' = IF firstDone THEN handle
                       ELSE [handle EXCEPT !.env = inflight.env.value]
  /\ UNCHANGED <<compose, call, callerOptions, child, promise, out, query,
                 derived, stream, lrs, encoderVars>>

\* the callback the second refreshEnv chained on its env promise:
\* this._env = env
ThenHandle2 ==
  /\ inflight.env.state # "pending"
  /\ inflight.ret.state = "pending"
  /\ IF inflight.env.state = "rejected"
     THEN /\ inflight' = [inflight EXCEPT
                            !.ret = Rejected(inflight.env.reason)]
          /\ UNCHANGED handle
     ELSE /\ inflight' = [inflight EXCEPT
                            !.ret = Fulfilled(inflight.env.value),
                            !.after = firstDone]
          /\ handle' = [handle EXCEPT !.env = inflight.env.value]
  /\ UNCHANGED <<compose, call, callerOptions, child, promise, out, query,
                 derived, stream, lrs, encoderVars>>

(* ---------------------- events(): the event stream --------------------- *)

Digits == <<"0", "1", "2", "3", "4", "5", "6", "7", "8", "9">>

isDigit(c) == \E i \in 1..10 : Digits[i] = c

digitValue(c) == (CHOOSE i \in 1..10 : Digits[i] = c) - 1

\* the value of a string of digits
RECURSIVE digitsValue(_, _)
digitsValue(s, acc) ==
  IF s = <<>> THEN acc
  ELSE digitsValue(Tail(s), 10 * acc + digitValue(Head(s)))

\* JSON.parse throws a SyntaxError on text: of the JSON documents this
\* covers the integers without sign and the empty object; the empty string
\* and everything else made of the characters of the chunks is no document
jsonThrows(text) ==
  ~ \/ text = <<"{", "}">>
    \/ /\ text # <<>>
       /\ \A i \in 1..Len(text) : isDigit(text[i])
       /\ Len(text) > 1 => text[1] # "0"

\* JSON.parse(text) for a text it does not throw on
jsonParse(text) ==
  IF text = <<"{", "}">> THEN Obj(<<>>) ELSE Num(digitsValue(text, 0))

\* the do-while loop of the stdout 'data' handler of events(): the line so
\* far, the records handed to eventsSubject.next and whether JSON.parse threw
RECURSIVE eventsLoop(_, _, _)
eventsLoop(currentLine, chunkStr, nexts) ==
  LET newLineIndex == indexOf(chunkStr, <<"\n">>) IN
    IF newLineIndex > 0 - 1
    THEN LET line == currentLine \o substrTo(chunkStr, newLineIndex) IN
           IF jsonThrows(line)
           THEN [currentLine |-> line, nexts |-> nexts, thrown |-> TRUE]
           ELSE eventsLoop(<<>>, substrFrom(chunkStr, newLineIndex),
                           Append(nexts, jsonParse(line)))
    ELSE [currentLine |-> currentLine \o chunkStr, nexts |-> nexts,
          thrown |-> FALSE]

\* events() has returned its stream and this process is running
streaming ==
  /\ call.op = <<"e", "v", "e", "n", "t", "s">>
  /\ ~call.threw
  /\ stream.state # "none"
  /\ ~stream.exited

\* stdout 'data' of the events subprocess: the loop runs on the chunk, a
\* Subject that is open passes each record on, and an exception JSON.parse
\* throws leaves the handler uncaught, which ends this process unless the
\* program has installed a handler for uncaught exceptions
EventsData(chunk) ==
  /\ streaming
  /\ child.state = "running"
  /\ stream.chunks < MaxChunks
  /\ LET r == eventsLoop(stream.currentLine, chunk, <<>>) IN
       \E exits \in BOOLEAN :
         /\ exits => r.thrown
         /\ stream' =
              [stream EXCEPT
                 !.currentLine = r.currentLine,
                 !.fed = @ \o chunk,
                 !.delivered = IF stream.state = "open" THEN @ \o r.nexts
                               ELSE @,
                 !.uncaught = @ \/ r.thrown,
                 !.exited = exits,
                 !.chunks = @ + 1]
  /\ UNCHANGED <<compose, handle, call, callerOptions, child, promise, out,
                 query, derived, inflight, lrs, encoderVars>>

\* the callbacks events() chained on the spawn promise:
\* eventsSubject.complete() and eventsSubject.error(err)
ThenEvents ==
  /\ streaming
  /\ promise.state # "pending"
  /\ stream.state = "open"
  /\ stream' =
       IF promise.state = "fulfilled"
       THEN [stream EXCEPT !.state = "completed"]
       ELSE [stream EXCEPT !.state = "errored", !.reason = promise.reason]
  /\ UNCHANGED <<compose, handle, call, callerOptions, child, promise, out,
                 query, derived, inflight, lrs, encoderVars>>

(* --------------------------- LineReadStream ---------------------------- *)

\* state.length of a Readable: the characters its buffer holds
RECURSIVE bufferLength(_)
bufferLength(buffer) ==
  IF buffer = <<>> THEN 0 ELSE Len(Head(buffer)) + bufferLength(Tail(buffer))

\* the listeners of an emitter in the order they were added
RECURSIVE listeners(_)
listeners(ids) ==
  IF ids = {} THEN <<>>
  ELSE LET least == CHOOSE i \in ids : \A j \in ids : i <= j
       IN <<least>> \o listeners(ids \ {least})

\* the chunkHandler at the head of the queue is done with the chunk: emit
\* calls the next listener with the same chunk, or has finished
nextHandler(run) ==
  IF Len(run.queue) > 1
  THEN [run EXCEPT !.pc = "index", !.queue = Tail(@), !.chunkStr = run.chunk]
  ELSE NoRun

\* Readable.read() finds the stream not reading and below its
\* highWaterMark and calls _read: a chunkHandler with an empty currentLine
\* of its own is added to the 'data' listeners of the upstream
LrsRead ==
  /\ lrs.made
  /\ lrs.run.pc = "idle"
  /\ ~lrs.reading
  /\ bufferLength(lrs.buffered) < HighWaterMark
  /\ Len(lrs.lines) < MaxReads
  /\ lrs' = [lrs EXCEPT !.reading = TRUE,
                        !.lines = Append(@, <<>>),
                        !.attached = @ \cup {Len(lrs.lines) + 1}]
  /\ UNCHANGED <<compose, handle, call, callerOptions, child, promise, out,
                 query, derived, inflight, stream, encoderVars>>

\* the upstream, flowing since its first 'data' listener was added and not
\* paused when the last one is removed, emits 'data' with a chunk: the
\* listeners there are at that moment are called one after the other
LrsData(chunk) ==
  /\ lrs.made
  /\ lrs.run.pc = "idle"
  /\ child.state = "running"
  /\ Len(lrs.lines) > 0
  /\ Len(lrs.fed) + Len(chunk) <= MaxFed
  /\ lrs' = [lrs EXCEPT
               !.fed = @ \o chunk,
               !.run = IF lrs.attached = {} THEN NoRun
                       ELSE [pc |-> "index", queue |-> listeners(lrs.attached),
                             chunkStr |-> chunk, chunk |-> chunk]]
  /\ UNCHANGED <<compose, handle, call, callerOptions, child, promise, out,
                 query, derived, inflight, stream, encoderVars>>

\* one turn of the do-while loop up to the push: newLineIndex =
\* chunkStr.indexOf('\n'), then either the line is completed and chunkStr
\* becomes chunkStr.substr(newLineIndex), or the chunk is added to the line
\* and the loop is left
LrsIndex ==
  /\ lrs.run.pc = "index"
  /\ LET h == Head(lrs.run.queue)
         chunkStr == lrs.run.chunkStr
         newLineIndex == indexOf(chunkStr, <<"\n">>)
     IN IF newLineIndex > 0 - 1
        THEN lrs' = [lrs EXCEPT
                       !.lines[h] = @ \o substrTo(chunkStr, newLineIndex),
                       !.run.chunkStr = substrFrom(chunkStr, newLineIndex),
                       !.run.pc = "push"]
        ELSE lrs' = [lrs EXCEPT
                       !.lines[h] = @ \o chunkStr,
                       !.run = nextHandler(lrs.run)]
  /\ UNCHANGED <<compose, handle, call, callerOptions, child, promise, out,
                 query, derived, inflight, stream, encoderVars>>

\* what this.push(unit) returns with the buffer as it is after the push
canPushMore(buffer) ==
  bufferLength(buffer) < HighWaterMark \/ bufferLength(buffer) = 0

\* a push after which the handler returns without removing itself
LrsPushStays ==
  /\ lrs.run.pc = "push"
  /\ LET h == Head(lrs.run.queue)
         unit == lrs.lines[h]
     IN \E flowing \in BOOLEAN :
          LET direct == flowing /\ lrs.buffered = <<>>
              buffer == IF unit = <<>> \/ direct THEN lrs.buffered
                        ELSE Append(lrs.buffered, unit)
          IN lrs' = [lrs EXCEPT
                       !.reading = FALSE,
                       !.lines[h] = <<>>,
                       !.emitted = IF unit = <<>> THEN @ ELSE Append(@, unit),
                       !.buffered = buffer,
                       !.run = IF canPushMore(buffer)
                               THEN [@ EXCEPT !.pc = "index"]
                               ELSE nextHandler(@)]
  /\ UNCHANGED <<compose, handle, call, callerOptions, child, promise, out,
                 query, derived, inflight, stream, encoderVars>>

\* the rest of that turn: shouldContinue = this.push(currentLine), where an
\* empty string adds nothing, a consumer that is flowing with an empty
\* buffer takes the unit at once and any other unit is buffered;
\* currentLine = ""; when push returned false the handler removes itself
\* from the upstream and returns, else the loop goes round again
LrsPush ==
  /\ lrs.run.pc = "push"
  /\ LET h == Head(lrs.run.queue)
         unit == lrs.lines[h]
     IN \E flowing \in BOOLEAN :
          LET direct == flowing /\ lrs.buffered = <<>>
              buffer == IF unit = <<>> \/ direct THEN lrs.buffered
                        ELSE Append(lrs.buffered, unit)
          IN lrs' = [lrs EXCEPT
                       !.reading = FALSE,
                       !.lines[h] = <<>>,
                       !.emitted = IF unit = <<>> THEN @ ELSE Append(@, unit),
                       !.buffered = buffer,
                       !.attached = IF canPushMore(buffer) THEN @
                                    ELSE @ \ {h},
                       !.run = IF canPushMore(buffer)
                               THEN [@ EXCEPT !.pc = "index"]
                               ELSE nextHandler(@)]
  /\ UNCHANGED <<compose, handle, call, callerOptions, child, promise, out,
                 query, derived, inflight, stream, encoderVars>>

\* the consumer takes the unit at the head of the buffer
LrsConsume ==
  /\ lrs.made
  /\ lrs.run.pc = "idle"
  /\ lrs.buffered # <<>>
  /\ lrs' = [lrs EXCEPT !.buffered = Tail(@)]
  /\ UNCHANGED <<compose, handle, call, callerOptions, child, promise, out,
                 query, derived, inflight, stream, encoderVars>>

(* --------------------------- facade inputs ----------------------------- *)

ServiceCommands ==
  {<<"b", "u", "i", "l", "d">>, <<"d", "o", "w", "n">>, <<"l", "o", "g", "s">>, <<"p", "a", "u", "s", "e">>, <<"p", "s">>, <<"p", "u", "l", "l">>, <<"p", "u", "s", "h">>, <<"r", "e", "s", "t", "a", "r", "t">>,
   <<"s", "t", "a", "r", "t">>, <<"s", "t", "o", "p">>, <<"t", "o", "p">>, <<"u", "n", "p", "a", "u", "s", "e">>, <<"u", "p">>}

DB == Str(<<"d", "b">>)
CLIENT == Str(<<"c", "l", "i", "e", "n", "t">>)
LS == Str(<<"l", "s">>)

\* an options mapping the encoder rejects
BadOptions == Obj(<<P(<<"b", "u", "i", "l", "d", "A", "r", "g">>, Obj(<<P(<<"K">>, Str(<<"V", " ", "V">>))>>))>>)

FewServiceArgLists ==
  { <<>>, <<DB, CLIENT>>, <<Obj(<<P(<<"p", "u", "l", "l">>, Bool(TRUE))>>), DB, CLIENT>> }

ServiceArgLists ==
  { <<>>, <<DB>>, <<DB, CLIENT>>,
    <<Obj(<<P(<<"p", "u", "l", "l">>, Bool(TRUE))>>)>>,
    <<Obj(<<P(<<"p", "u", "l", "l">>, Bool(TRUE))>>), DB, CLIENT>>,
    <<Obj(<<P(<<"b", "u", "i", "l", "d", "A", "r", "g">>, Obj(<<P(<<"K", "E", "Y">>, Str(<<"V", "A", "L", "U", "E">>))>>)),
            P(<<"n", "o", "C", "a", "c", "h", "e">>, Bool(TRUE))>>), DB>>,
    <<BadOptions, DB>> }

OptionsCommands == {<<"b", "u", "n", "d", "l", "e">>, <<"c", "o", "n", "f", "i", "g">>}

CommandOptions ==
  { Obj(<<>>), Obj(<<P(<<"p", "u", "s", "h", "I", "m", "a", "g", "e", "s">>, Bool(TRUE))>>),
    Obj(<<P(<<"o", "u", "t", "p", "u", "t">>, Str(<<"a", " ", "b">>))>>), BadOptions }

ExecArgLists ==
  { <<>>, <<DB>>, <<DB, LS>>, <<DB, LS, Str(<<"-", "l">>)>>,
    <<Obj(<<P(<<"u", "s", "e", "r">>, Str(<<"r", "o", "o", "t">>))>>), DB, LS>>,
    <<Obj(<<P(<<"d", "i", "s", "a", "b", "l", "e", "P", "s", "e", "u", "d", "o", "T", "t", "y">>, Bool(TRUE)), P(<<"u", "s", "e", "r">>, Str(<<"r", "o", "o", "t">>))>>),
      DB, LS, Str(<<"-", "l">>)>>,
    <<Obj(<<P(<<"d", "i", "s", "a", "b", "l", "e", "P", "s", "e", "u", "d", "o", "T", "t", "y">>, Bool(FALSE))>>), DB, LS>>,
    <<BadOptions, DB, LS>> }

KillArgLists ==
  { <<>>, <<DB>>, <<DB, CLIENT>>,
    <<Obj(<<P(<<"s", "i", "g", "n", "a", "l">>, Str(<<"S", "I", "G", "I", "N", "T">>))>>)>>,
    <<Obj(<<P(<<"s", "i", "g", "n", "a", "l">>, Str(<<"S", "I", "G", "I", "N", "T">>))>>), DB, CLIENT>>,
    <<Obj(<<>>), DB>>,
    <<Obj(<<P(<<"s", "i", "g", "n", "a", "l">>, Str(<<"S", "I", "G", "I", "N", "T">>)),
            P(<<"b", "u", "i", "l", "d", "A", "r", "g">>, Obj(<<P(<<"K">>, Str(<<"V", " ", "V">>))>>))>>), DB>> }

RmArgLists ==
  { <<>>, <<DB>>, <<DB, CLIENT>>,
    <<Obj(<<P(<<"r", "e", "m", "o", "v", "e", "V", "o", "l", "u", "m", "e", "s">>, Bool(TRUE)), P(<<"f", "o", "r", "c", "e">>, Bool(TRUE))>>), DB>>,
    <<Obj(<<P(<<"r", "e", "m", "o", "v", "e", "V", "o", "l", "u", "m", "e", "s">>, Bool(FALSE))>>)>>,
    <<Obj(<<P(<<"f", "o", "r", "c", "e">>, Bool(TRUE))>>), DB, CLIENT>>,
    <<Obj(<<P(<<"r", "e", "m", "o", "v", "e", "V", "o", "l", "u", "m", "e", "s">>, Bool(TRUE)),
            P(<<"b", "u", "i", "l", "d", "A", "r", "g">>, Obj(<<P(<<"K">>, Str(<<"V", " ", "V">>))>>))>>), DB>> }

EventsArgLists == {<<>>, <<DB>>, <<DB, CLIENT>>}

VersionOptions == {Undefined, Obj(<<>>), Obj(<<P(<<"s", "h", "o", "r", "t">>, Bool(TRUE))>>)}

ConfigPathValues ==
  { Undefined, Str(<<"a", ".", "y", "m", "l">>), Arr(<<Str(<<"a", ".", "y", "m", "l">>), Str(<<"b", ".", "y", "m", "l">>)>>) }

HostNames == {<<"m">>, <<"d", "e", "v">>}

EnvOptionValues ==
  { Undefined, Obj(<<P(<<"s", "h", "e", "l", "l">>, Str(<<"c", "m", "d">>))>>),
    Obj(<<P(<<"s", "w", "a", "r", "m">>, Bool(TRUE)), P(<<"n", "o", "P", "r", "o", "x", "y">>, Bool(TRUE))>>) }

Drivers == {<<"a", "z", "u", "r", "e">>, <<"v", "i", "r", "t", "u", "a", "l", "b", "o", "x">>}

DriverOptions ==
  { Obj(<<>>),
    Obj(<<P(<<"o", "p", "e", "n", "P", "o", "r", "t">>, Arr(<<Num(80), Str(<<"4", "4", "3">>)>>)),
          P(<<"s", "i", "z", "e">>, Str(<<"b", "i", "g">>))>>),
    Obj(<<P(<<"s", "i", "z", "e">>, Str(<<"b", "i", "g">>)), P(<<"o", "p", "e", "n", "P", "o", "r", "t">>, Num(80))>>),
    Obj(<<P(<<"o", "p", "e", "n", "P", "o", "r", "t">>, Num(80)), P(<<"e", "n", "g", "i", "n", "e", "O", "p", "t">>, Obj(<<P(<<"K", " ", "K">>, Num(1))>>))>>) }

\* chunks of env output, a line each: the bash and PowerShell forms
EnvChunks ==
  { <<"e", "x", "p", "o", "r", "t", " ", "D", "O", "C", "K", "E", "R", "_", "M", "A", "C", "H", "I", "N", "E", "_", "N", "A", "M", "E", "=", "\"", "m", "\"">> \o <<"\n">>,
    <<"e", "x", "p", "o", "r", "t", " ", "D", "O", "C", "K", "E", "R", "_", "H", "O", "S", "T", "=", "\"", "t", "c", "p", "\"">> \o <<"\n">>,
    <<"e", "x", "p", "o", "r", "t", " ", "D", "O", "C", "K", "E", "R", "_", "H", "O", "S", "T", "=", "\"", "u", "d", "p", "\"">> \o <<"\r", "\n">>,
    <<"#", " ", "R", "u", "n", " ", "t", "h", "i", "s", " ", "c", "o", "m", "m", "a", "n", "d">> \o <<"\n">>,
    <<"$", "E", "n", "v", ":", "D", "O", "C", "K", "E", "R", "_", "M", "A", "C", "H", "I", "N", "E", "_", "N", "A", "M", "E", " ", "=", " ", "\"", "m", "\"">> \o <<"\n">>,
    <<"$", "E", "n", "v", ":", "D", "O", "C", "K", "E", "R", "_", "H", "O", "S", "T", " ", "=", " ", "\"", "t", "c", "p", "\"">> \o <<"\n">> }

\* whole outputs of an env query on host m, delivered as one chunk
HandleOutputs ==
  { <<"e", "x", "p", "o", "r", "t", " ", "D", "O", "C", "K", "E", "R", "_", "M",
      "A", "C", "H", "I", "N", "E", "_", "N", "A", "M", "E", "=", "\"", "m",
      "\"", "\n",
      "e", "x", "p", "o", "r", "t", " ", "D", "O", "C", "K", "E", "R", "_", "H",
      "O", "S", "T", "=", "\"", "t", "c", "p", "\"", "\n">>,
    <<"e", "x", "p", "o", "r", "t", " ", "D", "O", "C", "K", "E", "R", "_", "M",
      "A", "C", "H", "I", "N", "E", "_", "N", "A", "M", "E", "=", "\"", "m",
      "\"", "\n",
      "e", "x", "p", "o", "r", "t", " ", "D", "O", "C", "K", "E", "R", "_", "H",
      "O", "S", "T", "=", "\"", "u", "d", "p", "\"", "\n">> }

\* exit codes of a subprocess that ran; null when a signal ended it
ExitCodes == {Num(0), Num(1), Num(137), Null}

\* the code a subprocess that could not be spawned closes with
FailedCodes == {Num(0 - 2)}

(* --------------------------- specifications ---------------------------- *)

Init ==
  /\ options = <<>>
  /\ parseOptions = Undefined
  /\ prefix = <<>>
  /\ pc = "idle"
  /\ idx = 1
  /\ optArgs = <<>>
  /\ result = NoResult
  /\ calls = <<>>
  /\ FacadeInit

\* a caller calls optionsToArgs
CallAny ==
  /\ pc = "idle"
  /\ \E o \in ConfigMappings, po \in ParseOptionValues : Call(o, po)

\* a caller that keeps a log calls optionsToArgs again and again
CallNext ==
  /\ pc = "idle"
  /\ \E o \in RepeatedMappings, po \in RepeatedParseOptions : Call(o, po)

Iterate ==
  \/ IterBoolean
  \/ IterString
  \/ IterNumber
  \/ IterArray
  \/ IterObject
  \/ IterFalsy

Next == CallAny \/ Iterate \/ Return

Spec == Init /\ [][Next]_vars

NextCalls == CallNext \/ Iterate \/ Return \/ Note

SpecCalls == Init /\ [][NextCalls]_vars

(* ------------------- what the encoder is said to do -------------------- *)

\* the string has a whitespace character somewhere
ContainsWhitespace(s) == \E i \in DOMAIN s : s[i] \in WhitespaceChars

\* the key, a hyphen put before each upper-case letter, all in lower case
RECURSIVE Hyphenated(_)
Hyphenated(key) ==
  IF key = <<>> THEN <<>>
  ELSE LET c == key[Len(key)]
           front == Hyphenated(SubSeq(key, 1, Len(key) - 1))
       IN IF \E i \in DOMAIN UpperChars : UpperChars[i] = c
          THEN front \o <<"-", LowerChars[CHOOSE i \in DOMAIN UpperChars :
                                            UpperChars[i] = c]>>
          ELSE front \o <<c>>

\* the prefix the caller gave, empty when none was given
SuppliedPrefix ==
  LET p == getProp(parseOptions, <<"p", "r", "e", "f", "i", "x">>)
  IN IF p.t = "string" THEN p.v ELSE <<>>

\* --<prefix><hyphenated key>
ExpectedFlag(key) == <<"-", "-">> \o SuppliedPrefix \o Hyphenated(key)

\* tok is the decimal numeral of the integer n
DigitValue(c) == CHOOSE d \in 0..9 : DigitChars[d + 1] = c
IsDigit(c) == \E d \in 0..9 : DigitChars[d + 1] = c
RECURSIVE NumeralValue(_)
NumeralValue(s) ==
  IF s = <<>> THEN 0
  ELSE NumeralValue(SubSeq(s, 1, Len(s) - 1)) * 10 + DigitValue(s[Len(s)])
IsNumeral(s) ==
  /\ s # <<>>
  /\ \A i \in DOMAIN s : IsDigit(s[i])
  /\ Len(s) > 1 => s[1] # "0"
IsDecimalOf(tok, n) ==
  IF n < 0
  THEN /\ Len(tok) > 1
       /\ tok[1] = "-"
       /\ IsNumeral(Tail(tok))
       /\ NumeralValue(Tail(tok)) = 0 - n
  ELSE IsNumeral(tok) /\ NumeralValue(tok) = n

\* the text of a string or number element
ElementText(x) == IF x.t = "string" THEN x.v ELSE numberToString(x.v)

\* the first n elements, with a comma between neighbours
RECURSIVE CommaJoined(_, _)
CommaJoined(a, n) ==
  IF n = 0 THEN <<>>
  ELSE IF n = 1 THEN ElementText(a[1])
       ELSE CommaJoined(a, n - 1) \o <<",">> \o ElementText(a[n])

\* a sequence of strings and numbers
IsStrNumSeq(x) ==
  x.t = "array" /\ \A i \in DOMAIN x.v : x.v[i].t \in {"string", "number"}

\* the text of an inner value of a flat mapping
InnerText(x) ==
  CASE x.t = "string" -> x.v
    [] x.t = "number" -> numberToString(x.v)
    [] x.t = "boolean" -> IF x.v THEN <<"t", "r", "u", "e">> ELSE <<"f", "a", "l", "s", "e">>
    [] OTHER -> CommaJoined(x.v, Len(x.v))

\* an inner pair breaks the no-whitespace rule
PairHasWhitespace(p) ==
  \/ ContainsWhitespace(p.k)
  \/ p.v.t = "string" /\ ContainsWhitespace(p.v.v)
  \/ /\ p.v.t = "array"
     /\ \E i \in DOMAIN p.v.v :
          p.v.v[i].t = "string" /\ ContainsWhitespace(p.v.v[i].v)

\* a flat mapping: string keys to strings, numbers, booleans or sequences
IsFlatMapping(x) ==
  /\ x.t = "object"
  /\ \A i \in DOMAIN x.v :
       x.v[i].v.t \in {"string", "number", "boolean"} \/ IsStrNumSeq(x.v[i].v)

\* a flat mapping the encoder has to accept
IsCleanFlatMapping(x) ==
  IsFlatMapping(x) /\ \A i \in DOMAIN x.v : ~PairHasWhitespace(x.v[i])

\* flag, k=v for each of the first n inner pairs, in their order
RECURSIVE PairTokens(_, _, _)
PairTokens(flag, pairs, n) ==
  IF n = 0 THEN <<>>
  ELSE PairTokens(flag, pairs, n - 1)
         \o <<flag, pairs[n].k \o <<"=">> \o InnerText(pairs[n].v)>>

\* the tokens of one entry, for the kinds of value the encoder documents
ExpectedEntryTokens(e) ==
  CASE e.v.t = "boolean" -> IF e.v.v THEN <<ExpectedFlag(e.k)>> ELSE <<>>
    [] e.v.t = "string" ->
         <<ExpectedFlag(e.k),
           IF ContainsWhitespace(e.v.v)
           THEN <<"\"">> \o e.v.v \o <<"\"">> ELSE e.v.v>>
    [] e.v.t = "number" -> <<ExpectedFlag(e.k), numberToString(e.v.v)>>
    [] e.v.t = "array" -> <<ExpectedFlag(e.k), CommaJoined(e.v.v, Len(e.v.v))>>
    [] e.v.t = "object" -> PairTokens(ExpectedFlag(e.k), e.v.v, Len(e.v.v))
    [] OTHER -> <<>>

\* a value of a documented kind that the encoder accepts
IsDocumentedValue(x) ==
  \/ x.t \in {"boolean", "string", "number", "null", "undefined"}
  \/ IsStrNumSeq(x)
  \/ IsCleanFlatMapping(x)

\* the tokens of the first n entries, entry after entry
RECURSIVE ExpectedTokens(_, _)
ExpectedTokens(m, n) ==
  IF n = 0 THEN <<>>
  ELSE ExpectedTokens(m, n - 1) \o ExpectedEntryTokens(m[n])

\* the loop has just dealt with an entry and goes on
Appended == SubSeq(optArgs', Len(optArgs) + 1, Len(optArgs'))
Extends == Len(optArgs') >= Len(optArgs)
             /\ SubSeq(optArgs', 1, Len(optArgs)) = optArgs

(* ------------------------------- claims -------------------------------- *)

\* C1: whenever an entry adds tokens, the first one is the flag
\* --<prefix><key'>, key' being the key with a hyphen before each upper-case
\* letter, lower-cased; prefix test-prefix- and key testNumber give
\* --test-prefix-test-number, no prefix and testOption give --test-option
C1_FlagNaming ==
  [][ (inLoop /\ Len(optArgs') > Len(optArgs)) =>
        /\ Extends
        /\ Appended[1] = ExpectedFlag(curEntry.k)
        /\ (curEntry.k = <<"t", "e", "s", "t", "N", "u", "m", "b", "e", "r">> /\ SuppliedPrefix = <<"t", "e", "s", "t", "-", "p", "r", "e", "f", "i", "x", "-">>)
             => Appended[1] = <<"-", "-", "t", "e", "s", "t", "-", "p", "r", "e", "f", "i", "x", "-", "t", "e", "s", "t", "-", "n", "u", "m", "b", "e", "r">>
        /\ (curEntry.k = <<"t", "e", "s", "t", "O", "p", "t", "i", "o", "n">> /\ SuppliedPrefix = <<>>)
             => Appended[1] = <<"-", "-", "t", "e", "s", "t", "-", "o", "p", "t", "i", "o", "n">> ]_vars

C1_Witness ==
  /\ pc = "returned"
  /\ Len(options) = 2
  /\ options[1].k = <<"t", "e", "s", "t", "N", "u", "m", "b", "e", "r">>
  /\ options[2].k = <<"A", "B", "c">>
  /\ options[1].v.t = "number"
  /\ options[2].v.t = "boolean" /\ options[2].v.v
  /\ SuppliedPrefix = <<"t", "e", "s", "t", "-", "p", "r", "e", "f", "i", "x", "-">>
  /\ result.tokens[1] = <<"-", "-", "t", "e", "s", "t", "-", "p", "r", "e", "f", "i", "x", "-", "t", "e", "s", "t", "-", "n", "u", "m", "b", "e", "r">>
  /\ result.tokens[3] = <<"-", "-", "t", "e", "s", "t", "-", "p", "r", "e", "f", "i", "x", "-", "-", "a", "-", "b", "c">>

\* C2: an entry whose value is true adds exactly one token, its flag
C2_TrueAddsFlagOnly ==
  [][ (inLoop /\ curEntry.v.t = "boolean" /\ curEntry.v.v) =>
        /\ Extends
        /\ Appended = <<ExpectedFlag(curEntry.k)>> ]_vars

C2_Witness ==
  /\ pc = "returned"
  /\ Len(options) = 1
  /\ options[1].k = <<"t", "e", "s", "t", "O", "p", "t", "i", "o", "n">>
  /\ options[1].v.t = "boolean" /\ options[1].v.v
  /\ SuppliedPrefix = <<>>
  /\ result.tokens = <<<<"-", "-", "t", "e", "s", "t", "-", "o", "p", "t", "i", "o", "n">>>>

\* C3: a string entry adds its flag and one value token, the string in
\* double quotes if and only if it contains whitespace, else the string
C3_StringQuoting ==
  [][ (inLoop /\ curEntry.v.t = "string") =>
        /\ Extends
        /\ Len(Appended) = 2
        /\ Appended[1] = ExpectedFlag(curEntry.k)
        /\ ContainsWhitespace(curEntry.v.v)
             => Appended[2] = <<"\"">> \o curEntry.v.v \o <<"\"">>
        /\ ~ContainsWhitespace(curEntry.v.v) => Appended[2] = curEntry.v.v ]_vars

C3_Witness ==
  /\ pc = "returned"
  /\ Len(options) = 2
  /\ options[1].v.t = "string" /\ options[1].v.v = <<"a", "\t", "b">>
  /\ options[2].v.t = "string" /\ options[2].v.v = <<"h", "e", "l", "l", "o">>
  /\ Len(result.tokens) = 4
  /\ result.tokens[2] = <<"\"", "a", "\t", "b", "\"">>
  /\ result.tokens[4] = <<"h", "e", "l", "l", "o">>

\* C4: a number entry, 0 included, adds its flag and the decimal numeral of
\* the number
C4_NumberDecimal ==
  [][ (inLoop /\ curEntry.v.t = "number") =>
        /\ Extends
        /\ Len(Appended) = 2
        /\ Appended[1] = ExpectedFlag(curEntry.k)
        /\ IsDecimalOf(Appended[2], curEntry.v.v) ]_vars

C4_Witness ==
  /\ pc = "returned"
  /\ Len(options) = 2
  /\ options[1].v.t = "number" /\ options[1].v.v = 0
  /\ options[2].v.t = "number" /\ options[2].v.v = 42
  /\ Len(result.tokens) = 4
  /\ result.tokens[2] = <<"0">>
  /\ result.tokens[4] = <<"4", "2">>

\* C5: an entry whose value is a sequence of strings and numbers adds its
\* flag and exactly one token, the elements joined by commas in their order,
\* none of them quoted or escaped
C5_ArrayJoined ==
  [][ (inLoop /\ IsStrNumSeq(curEntry.v)) =>
        /\ Extends
        /\ Appended = <<ExpectedFlag(curEntry.k),
                        CommaJoined(curEntry.v.v, Len(curEntry.v.v))>> ]_vars

C5_Witness ==
  /\ pc = "returned"
  /\ Len(options) = 2
  /\ options[1].v = Arr(<<Str(<<"a", " ", "b">>), Num(1)>>)
  /\ options[2].v = Arr(<<Str(<<"a", ",", "b">>), Str(<<"c">>)>>)
  /\ Len(result.tokens) = 4
  /\ result.tokens[2] = <<"a", " ", "b", ",", "1">>
  /\ result.tokens[4] = <<"a", ",", "b", ",", "c">>

\* C6: an entry whose value is a flat mapping adds, for each inner key in
\* the mapping's order, the outer flag and one token innerKey=innerValue, a
\* sequence joined by commas and a boolean as true or false, a false inner
\* value included
C6_FlatMappingPairs ==
  [][ (inLoop /\ IsCleanFlatMapping(curEntry.v)) =>
        /\ Extends
        /\ pc' = "loop"
        /\ Appended = PairTokens(ExpectedFlag(curEntry.k), curEntry.v.v,
                                 Len(curEntry.v.v)) ]_vars

C6_Witness ==
  /\ pc = "returned"
  /\ Len(options) = 1
  /\ options[1].k = <<"t", "e", "s", "t", "O", "p", "t", "i", "o", "n">>
  /\ options[1].v.t = "object"
  /\ Len(options[1].v.v) = 4
  /\ SuppliedPrefix = <<>>
  /\ result.tokens = <<<<"-", "-", "t", "e", "s", "t", "-", "o", "p", "t", "i", "o", "n">>, <<"n", "=", "4", "2">>, <<"-", "-", "t", "e", "s", "t", "-", "o", "p", "t", "i", "o", "n">>, <<"m", "=", "a", ",", "b">>,
                       <<"-", "-", "t", "e", "s", "t", "-", "o", "p", "t", "i", "o", "n">>, <<"t", "=", "t", "r", "u", "e">>, <<"-", "-", "t", "e", "s", "t", "-", "o", "p", "t", "i", "o", "n">>,
                       <<"f", "=", "f", "a", "l", "s", "e">>>>

\* some flat-mapping option has an inner pair that breaks the whitespace rule
Offending(m) ==
  \E i \in DOMAIN m :
    m[i].v.t = "object" /\ \E j \in DOMAIN m[i].v.v : PairHasWhitespace(m[i].v.v[j])

\* C7: when some flat-mapping option has an inner key, a string inner value
\* or a string element of a sequence inner value with whitespace in it, the
\* call ends in a validation error and the caller receives no token, not
\* even those of the entries before
C7_WhitespaceRejected ==
  (pc \in {"returned", "thrown"} /\ Offending(options)) =>
    /\ pc = "thrown"
    /\ result.kind = "error"
    /\ result.tokens = <<>>

C7_Witness ==
  /\ pc = "thrown"
  /\ Offending(options)
  /\ idx = 2
  /\ Len(optArgs) = 4
  /\ result.kind = "error"
  /\ result.tokens = <<>>

\* a field that is false, null or undefined
IsFalseOrAbsent(x) ==
  \/ x.t \in {"null", "undefined"}
  \/ x.t = "boolean" /\ ~x.v

\* a field that is false, null, undefined or the empty string
IsFalseOrEmpty(x) == IsFalseOrAbsent(x) \/ (x.t = "string" /\ x.v = <<>>)

\* C8 as stated: a mapping all of whose fields are false, null, undefined or
\* the empty string gives the empty token sequence
C8_AsStated ==
  (pc = "returned" /\ \A i \in DOMAIN options : IsFalseOrEmpty(options[i].v))
    => result.tokens = <<>>

\* C8, amended: a mapping all of whose fields are false, null or undefined
\* gives the empty token sequence
C8_FalseOrAbsentEmpty ==
  (pc = "returned" /\ \A i \in DOMAIN options : IsFalseOrAbsent(options[i].v))
    => result.tokens = <<>>

C8_Witness ==
  /\ pc = "returned"
  /\ Len(options) = 2
  /\ options[1].v.t = "boolean" /\ ~options[1].v.v
  /\ options[2].v.t = "null"
  /\ result.kind = "tokens"
  /\ result.tokens = <<>>

\* C9: the returned sequence is the tokens of the first entry, then those
\* of the second, and so on in the mapping's order
C9_EntryOrder ==
  (pc = "returned" /\ \A i \in DOMAIN options : IsDocumentedValue(options[i].v))
    => result.tokens = ExpectedTokens(options, Len(options))

C9_Witness ==
  /\ pc = "returned"
  /\ Len(options) = 2
  /\ options[1].k = <<"t", "e", "s", "t", "N", "u", "m", "b", "e", "r">> /\ options[1].v.t = "number"
  /\ options[1].v.v = 10
  /\ options[2].k = <<"t", "e", "s", "t", "O", "p", "t", "i", "o", "n">> /\ options[2].v.t = "object"
  /\ SuppliedPrefix = <<"t", "e", "s", "t", "-", "p", "r", "e", "f", "i", "x", "-">>
  /\ result.tokens = <<<<"-", "-", "t", "e", "s", "t", "-", "p", "r", "e", "f", "i", "x", "-", "t", "e", "s", "t", "-", "n", "u", "m", "b", "e", "r">>, <<"1", "0">>,
                       <<"-", "-", "t", "e", "s", "t", "-", "p", "r", "e", "f", "i", "x", "-", "t", "e", "s", "t", "-", "o", "p", "t", "i", "o", "n">>, <<"K", "E", "Y", "=", "V", "A", "L", "U", "E">>>>

\* two logged calls with the same mapping and prefix had the same outcome
SameInSameOut ==
  \A i, j \in DOMAIN calls :
    (calls[i].options = calls[j].options /\ calls[i].prefix = calls[j].prefix)
      => calls[i].result = calls[j].result

\* C10: calls with the same mapping and the same prefix have the same
\* outcome whatever was called in between, and a call leaves the mapping it
\* was given as it was
C10_Pure ==
  /\ []SameInSameOut
  /\ [][pc = "loop" => options' = options]_vars

C10_Witness ==
  /\ Len(calls) >= 3
  /\ calls[1].options = calls[3].options
  /\ calls[1].prefix = calls[3].prefix
  /\ calls[2].options # calls[1].options
  /\ calls[1].result = calls[3].result
  /\ calls[1].result.kind = "tokens"
  /\ Len(calls[1].result.tokens) = 4

(* ----------------------- the machine specification --------------------- *)

\* the subprocess closes: with an exit code when it ran, with the code of
\* the failure when it could not be spawned
Close ==
  \E c \in ExitCodes \cup FailedCodes :
    /\ child.state = "running" => c \in ExitCodes
    /\ child.state = "failed" => c \in FailedCodes
    /\ ChildClose(c)

\* env queries on hosts until there is a handle, refreshes of the handle,
\* their output in chunks of one line, and the callbacks chained on them
NextMachine ==
  \/ /\ ~handle.made
     /\ \E n \in HostNames, o \in EnvOptionValues : MachineEnv(n, o)
  \/ /\ ~handle.made
     /\ \E n \in HostNames, o \in EnvOptionValues : MachineGet(n, o)
  \/ \E o \in EnvOptionValues : RefreshEnv(o)
  \/ \E c \in EnvChunks : StdoutData(c)
  \/ ChildError
  \/ Close
  \/ ThenParse
  \/ ThenHandle

SpecMachine == Init /\ [][NextMachine]_vars

(* ------------------------ the facade specification --------------------- *)

\* a host handle is obtained and refreshed with the whole output in one
\* chunk, a DockerCompose is constructed, and one operation is called
NextFacade ==
  \/ ~handle.made /\ MachineGet(<<"m">>, Undefined)
  \/ RefreshEnv(Undefined)
  \/ out = <<>> /\ \E c \in HandleOutputs : StdoutData(c)
  \/ \E cp \in ConfigPathValues, m \in BOOLEAN : ConstructCompose(cp, m)
  \/ /\ compose.made /\ mayCall
     /\ \E c \in ServiceCommands :
          \E a \in (IF c = <<"b", "u", "i", "l", "d">> THEN ServiceArgLists
                    ELSE FewServiceArgLists) :
            ServiceCommand(c, a)
  \/ /\ compose.made /\ mayCall
     /\ \E c \in OptionsCommands, o \in CommandOptions : OptionsCommand(c, o)
  \/ \E s \in EventsArgLists : Events(s)
  \/ \E b \in {Bool(TRUE), Bool(FALSE), Undefined} : Images(b)
  \/ \E o \in VersionOptions : Version(o)
  \/ \E a \in ExecArgLists : Exec(a)
  \/ \E a \in ExecArgLists : Run(a)
  \/ \E a \in KillArgLists : Kill(a)
  \/ \E a \in RmArgLists : Rm(a)
  \/ /\ mayCall
     /\ \E n \in HostNames, d \in Drivers, o \in DriverOptions : Create(n, d, o)
  \/ ThenCreate
  \/ ChildError
  \/ Close
  \/ ThenParse
  \/ ThenHandle

SpecFacade == Init /\ [][NextFacade]_vars

(* ------------------------------ C11 ------------------------------------ *)

\* the text ends with the given ending
EndsWith(text, ending) ==
  /\ Len(ending) <= Len(text)
  /\ SubSeq(text, Len(text) - Len(ending) + 1, Len(text)) = ending

\* the text starts with the given beginning
StartsWith(text, beginning) ==
  /\ Len(beginning) <= Len(text)
  /\ SubSeq(text, 1, Len(beginning)) = beginning

\* the error message names the program and the exit code
NamesProgramAndCode(message, program, code) ==
  /\ StartsWith(message, program)
  /\ \E k \in 1..Len(message) :
       /\ IsDecimalOf(SubSeq(message, k, Len(message)), code)
       /\ k > Len(program) + 1

\* the completion signal in every state of the subprocess
SignalFollowsChild ==
  /\ child.state \in {"none", "running"} => promise.state = "pending"
  /\ promise.state = "fulfilled"
       <=> (child.state = "closed" /\ ~child.errored /\ child.code = Num(0))
  /\ child.errored
       => promise.state = "rejected" /\ promise.reason = SpawnErrorMessage
  /\ (child.state = "closed" /\ ~child.errored /\ child.code # Num(0))
       => /\ promise.state = "rejected"
          /\ child.code.t = "number"
               => NamesProgramAndCode(promise.reason, child.program,
                                      child.code.v)

\* a settled signal of a subprocess is never settled again
SettlesOnce ==
  (promise.state # "pending" /\ child'.state # "running")
    => promise' = promise

\* C11: the completion signal of a spawned subprocess resolves exactly when
\* the subprocess closes with code 0 and no spawn error came first, fails
\* with an error naming the program and the code when it closes with another
\* code, fails with the spawn error as soon as one is reported and before
\* any close, and once settled stays as it is
C11_CompletionSignal == []SignalFollowsChild /\ [][SettlesOnce]_vars

\* a spawn error came, and the close after it left the failure as it was
C11_Witness ==
  /\ child.state = "closed"
  /\ child.errored
  /\ promise.state = "rejected"

(* --------------------------- C12, C13, C14 ----------------------------- *)

\* the flags and values of the first n entries of an options mapping under a
\* prefix, entry after entry, as the encoder documents them
RECURSIVE ExpectedOptionTokens(_, _, _)
ExpectedOptionTokens(m, pre, n) ==
  IF n = 0 THEN <<>>
  ELSE LET e == m[n]
           flag == <<"-", "-">> \o pre \o Hyphenated(e.k)
       IN ExpectedOptionTokens(m, pre, n - 1) \o
          (CASE e.v.t = "boolean" -> IF e.v.v THEN <<flag>> ELSE <<>>
             [] e.v.t = "string" ->
                  <<flag, IF ContainsWhitespace(e.v.v)
                          THEN <<"\"">> \o e.v.v \o <<"\"">> ELSE e.v.v>>
             [] e.v.t = "number" -> <<flag, numberToString(e.v.v)>>
             [] e.v.t = "array" -> <<flag, CommaJoined(e.v.v, Len(e.v.v))>>
             [] e.v.t = "object" -> PairTokens(flag, e.v.v, Len(e.v.v))
             [] OTHER -> <<>>)

\* -f <path> for each of the first n configured paths, in configured order
RECURSIVE ConfigFlags(_, _)
ConfigFlags(paths, n) ==
  IF n = 0 THEN <<>>
  ELSE ConfigFlags(paths, n - 1) \o <<Str(<<"-", "f">>), paths[n]>>

\* the options mapping a call was given first, empty when it was given none
GivenOptions(args) ==
  IF Len(args) > 0 /\ args[1].t = "object" THEN args[1].v ELSE <<>>

\* the arguments a call was given after its options mapping
GivenPositionals(args) ==
  IF Len(args) > 0 /\ args[1].t = "object" THEN Tail(args) ELSE args

\* the tokens as values of the argument vector
AsValues(toks) == [i \in 1..Len(toks) |-> Str(toks[i])]

\* the call of an operation has spawned a subprocess, and the subprocess
\* is the one the call spawned, not that of a query chained on it
ComposeSpawned(ops) ==
  /\ call.op \in ops
  /\ ~call.threw
  /\ child.state # "none"
  /\ query.kind = "none"

\* the -f flags, the command and then the given tail
LaidOut(command, tail) ==
  child.args =
    ConfigFlags(compose.configPaths, Len(compose.configPaths))
      \o <<Str(command)>> \o tail

BuildPull == Obj(<<P(<<"p", "u", "l", "l">>, Bool(TRUE))>>)

\* C12: every subprocess a service-style operation, bundle or config spawns
\* has the argument vector -f <path> per configured path in order, the
\* command, the encoded option flags and then the service names; build()
\* gives [-f.., build] and build({pull: true}, db, client) gives
\* [-f.., build, --pull, db, client]
C12_AsStated ==
  ComposeSpawned(ServiceCommands \cup OptionsCommands) =>
    /\ LaidOut(call.op,
               AsValues(ExpectedOptionTokens(GivenOptions(call.args), <<>>,
                                             Len(GivenOptions(call.args))))
                 \o GivenPositionals(call.args))
    /\ (call.op = <<"b", "u", "i", "l", "d">> /\ call.args = <<>>) => LaidOut(<<"b", "u", "i", "l", "d">>, <<>>)
    /\ (call.op = <<"b", "u", "i", "l", "d">> /\ call.args = <<BuildPull, DB, CLIENT>>)
         => LaidOut(<<"b", "u", "i", "l", "d">>, <<Str(<<"-", "-", "p", "u", "l", "l">>), DB, CLIENT>>)

\* the arguments are service names and nothing else
ServicesOnly(args) ==
  /\ Len(args) > 0
  /\ \A i \in 1..Len(args) : args[i].t = "string"

\* the argument vector ends with the given values
EndsWithValues(argv, tail) ==
  /\ Len(tail) <= Len(argv)
  /\ SubSeq(argv, Len(argv) - Len(tail) + 1, Len(argv)) = tail

\* C13: a service-style operation called with service names only spawns an
\* argument vector that ends with every given service name, in the order
\* given
C13_AsStated ==
  (ComposeSpawned(ServiceCommands) /\ ServicesOnly(call.args))
    => EndsWithValues(child.args, call.args)

\* exec or run was called as (service, command, args) or as
\* (options, service, command, args)
ServiceAndCommand(args) ==
  /\ Len(GivenPositionals(args)) >= 2
  /\ \A i \in 1..Len(GivenPositionals(args)) :
       GivenPositionals(args)[i].t = "string"

\* C14: exec and run spawn an argument vector that ends with the service
\* name, the command and the command's arguments; the service name is
\* never left out
C14_AsStated ==
  (ComposeSpawned({<<"e", "x", "e", "c">>, <<"r", "u", "n">>}) /\ ServiceAndCommand(call.args))
    => EndsWithValues(child.args, GivenPositionals(call.args))

(* ------------------------------ C15 ------------------------------------ *)

\* the entries of a mapping other than the one named key
RECURSIVE Others(_, _, _)
Others(m, key, n) ==
  IF n = 0 THEN <<>>
  ELSE Others(m, key, n - 1) \o (IF m[n].k = key THEN <<>> ELSE <<m[n]>>)

\* the value a mapping gives key, undefined when it gives none
ValueOf(m, key) ==
  IF \E i \in 1..Len(m) : m[i].k = key
  THEN m[CHOOSE i \in 1..Len(m) : m[i].k = key].v
  ELSE Undefined

\* --open-port <port> for each of the first n ports
RECURSIVE OpenPortPairs(_, _)
OpenPortPairs(ports, n) ==
  IF n = 0 THEN <<>>
  ELSE OpenPortPairs(ports, n - 1) \o <<Str(<<"-", "-", "o", "p", "e", "n", "-", "p", "o", "r", "t">>), ports[n]>>

\* the argument vector is the head, the generic flags of the other fields,
\* the special form, and then nothing but positional arguments that were
\* given, still in their order and up to the last one
SpecialAfterGeneric(head, m, pre, key, special, positionals) ==
  LET others == Others(m, key, Len(m))
      front == head \o AsValues(ExpectedOptionTokens(others, pre, Len(others)))
                 \o special
  IN /\ Len(front) <= Len(child.args)
     /\ SubSeq(child.args, 1, Len(front)) = front
     /\ EndsWithValues(positionals,
                       SubSeq(child.args, Len(front) + 1, Len(child.args)))

\* no token of the argument vector is the generic long flag of the field
NoLongFlag(pre, key) ==
  \A i \in 1..Len(child.args) :
    child.args[i] # Str(<<"-", "-">> \o pre \o Hyphenated(key))

ComposeHead ==
  ConfigFlags(compose.configPaths, Len(compose.configPaths))
    \o <<Str(call.op)>>

\* C15: a special-cased field is rendered in its special form only, after
\* the generic flags and before the positional arguments: kill's signal as
\* -s <signal>, rm's removeVolumes: true as -v, disablePseudoTty: true of
\* exec and run as -T, the azure driver's array openPort as one
\* --open-port <port> pair per element; none is also a generic long flag
C15_SpecialCased ==
  LET m == GivenOptions(call.args)
      rest == GivenPositionals(call.args)
  IN /\ (ComposeSpawned({<<"k", "i", "l", "l">>}) /\ ValueOf(m, <<"s", "i", "g", "n", "a", "l">>).t = "string")
          => /\ SpecialAfterGeneric(ComposeHead, m, <<>>, <<"s", "i", "g", "n", "a", "l">>,
                   <<Str(<<"-", "s">>), ValueOf(m, <<"s", "i", "g", "n", "a", "l">>)>>, rest)
             /\ NoLongFlag(<<>>, <<"s", "i", "g", "n", "a", "l">>)
     /\ (ComposeSpawned({<<"r", "m">>}) /\ ValueOf(m, <<"r", "e", "m", "o", "v", "e", "V", "o", "l", "u", "m", "e", "s">>) = Bool(TRUE))
          => /\ SpecialAfterGeneric(ComposeHead, m, <<>>, <<"r", "e", "m", "o", "v", "e", "V", "o", "l", "u", "m", "e", "s">>,
                   <<Str(<<"-", "v">>)>>, rest)
             /\ NoLongFlag(<<>>, <<"r", "e", "m", "o", "v", "e", "V", "o", "l", "u", "m", "e", "s">>)
     /\ (ComposeSpawned({<<"e", "x", "e", "c">>, <<"r", "u", "n">>})
           /\ ValueOf(m, <<"d", "i", "s", "a", "b", "l", "e", "P", "s", "e", "u", "d", "o", "T", "t", "y">>) = Bool(TRUE))
          => /\ SpecialAfterGeneric(ComposeHead, m, <<>>, <<"d", "i", "s", "a", "b", "l", "e", "P", "s", "e", "u", "d", "o", "T", "t", "y">>,
                   <<Str(<<"-", "T">>)>>, rest)
             /\ NoLongFlag(<<>>, <<"d", "i", "s", "a", "b", "l", "e", "P", "s", "e", "u", "d", "o", "T", "t", "y">>)
     /\ (ComposeSpawned({<<"c", "r", "e", "a", "t", "e">>}) /\ call.args[2] = Str(<<"a", "z", "u", "r", "e">>)
           /\ ValueOf(call.args[3].v, <<"o", "p", "e", "n", "P", "o", "r", "t">>).t = "array")
          => LET ports == ValueOf(call.args[3].v, <<"o", "p", "e", "n", "P", "o", "r", "t">>).v IN
             /\ SpecialAfterGeneric(
                  <<Str(<<"c", "r", "e", "a", "t", "e">>), Str(<<"-", "-", "d", "r", "i", "v", "e", "r">>), Str(<<"a", "z", "u", "r", "e">>)>>,
                  call.args[3].v, <<"a", "z", "u", "r", "e", "-">>, <<"o", "p", "e", "n", "P", "o", "r", "t">>,
                  OpenPortPairs(ports, Len(ports)), <<call.args[1]>>)
             /\ child.args[Len(child.args)] = call.args[1]
             /\ NoLongFlag(<<"a", "z", "u", "r", "e", "-">>, <<"o", "p", "e", "n", "P", "o", "r", "t">>)

\* rm was called with removeVolumes beside another option and a service
C15_Witness ==
  /\ ComposeSpawned({<<"r", "m">>})
  /\ ValueOf(GivenOptions(call.args), <<"r", "e", "m", "o", "v", "e", "V", "o", "l", "u", "m", "e", "s">>) = Bool(TRUE)
  /\ ValueOf(GivenOptions(call.args), <<"f", "o", "r", "c", "e">>) = Bool(TRUE)
  /\ Len(child.args) >= 4

(* ------------------------------ C16 ------------------------------------ *)

EnvQueryOps == {<<"e", "n", "v">>, <<"g", "e", "t">>, <<"r", "e", "f", "r", "e", "s", "h", "E", "n", "v">>}

\* the entries of the env options the caller gave, none when it gave none
GivenEnvOptions == IF callerOptions.t = "object" THEN callerOptions.v ELSE <<>>

\* C16: DockerMachine.env(name, options), DockerMachine.get(name, options,
\* envOptions) and refreshEnv(options) spawn docker-machine env with every
\* encoded token of the env options (--shell <s>, --swarm, --no-proxy) in
\* the argument vector
C16_AsStated ==
  (call.op \in EnvQueryOps /\ child.state # "none") =>
    LET toks == ExpectedOptionTokens(GivenEnvOptions, <<>>,
                                     Len(GivenEnvOptions))
    IN /\ child.args[1] = Str(<<"e", "n", "v">>)
       /\ \A i \in 1..Len(toks) :
            \E j \in 1..Len(child.args) : child.args[j] = Str(toks[i])

(* ------------------------------ C17 ------------------------------------ *)

ComposeOps ==
  ServiceCommands \cup OptionsCommands
    \cup {<<"e", "v", "e", "n", "t", "s">>, <<"i", "m", "a", "g", "e", "s">>, <<"v", "e", "r", "s", "i", "o", "n">>, <<"e", "x", "e", "c">>, <<"r", "u", "n">>, <<"k", "i", "l", "l">>, <<"r", "m">>}

\* the environment holds every entry of the mapping
HoldsAll(env, mapping) ==
  \A k \in DOMAIN mapping : k \in DOMAIN env /\ env[k] = mapping[k]

\* C17: a subprocess spawned by a DockerCompose bound to a host handle gets
\* an environment that holds every entry of the handle's mapping as it
\* stands at the spawn, and every entry of the environment the subprocess
\* would get otherwise
C17_AsStated ==
  (ComposeSpawned(ComposeOps) /\ compose.bound) =>
    /\ HoldsAll(childEnv(child), handle.env)
    /\ \A k \in DOMAIN ProcessEnv \ DOMAIN handle.env :
         k \in DOMAIN childEnv(child) /\ childEnv(child)[k] = ProcessEnv[k]

(* ------------------------------ C18 ------------------------------------ *)

OptionOps ==
  ServiceCommands \cup OptionsCommands
    \cup {<<"e", "x", "e", "c">>, <<"r", "u", "n">>, <<"k", "i", "l", "l">>, <<"r", "m">>, <<"c", "r", "e", "a", "t", "e">>}

\* the field an operation deals with itself, never a field when none
SpecialKey(op, args) ==
  CASE op = <<"k", "i", "l", "l">> -> <<"s", "i", "g", "n", "a", "l">>
    [] op = <<"r", "m">> -> <<"r", "e", "m", "o", "v", "e", "V", "o", "l", "u", "m", "e", "s">>
    [] op \in {<<"e", "x", "e", "c">>, <<"r", "u", "n">>} -> <<"d", "i", "s", "a", "b", "l", "e", "P", "s", "e", "u", "d", "o", "T", "t", "y">>
    [] op = <<"c", "r", "e", "a", "t", "e">> /\ args[2] = Str(<<"a", "z", "u", "r", "e">>) -> <<"o", "p", "e", "n", "P", "o", "r", "t">>
    [] OTHER -> <<>>

\* the options mapping of the call the step makes
CalledOptions ==
  IF call'.op = <<"c", "r", "e", "a", "t", "e">> THEN call'.args[3].v ELSE GivenOptions(call'.args)

\* encoding the options raises a validation error: a field left to the
\* encoder has a value it rejects
EncodingRaises ==
  \E i \in 1..Len(CalledOptions) :
    /\ CalledOptions[i].k # SpecialKey(call'.op, call'.args)
    /\ ~IsDocumentedValue(CalledOptions[i].v)

\* C18: when a step calls an operation that takes options and encoding them
\* raises a validation error, the call raises it and the step spawns no
\* subprocess
C18_RaisesBeforeSpawn ==
  [][ (call' # call /\ call'.op \in OptionOps /\ EncodingRaises)
        => (call'.threw /\ child' = child /\ promise' = promise) ]_vars

\* create raised the validation error and there is no subprocess
C18_Witness ==
  /\ call.op = <<"c", "r", "e", "a", "t", "e">>
  /\ call.threw
  /\ child.state = "none"

(* --------------------------- C19 and C20 ------------------------------- *)

\* the text has the other text in it
Contains(text, part) ==
  \E i \in 0..(Len(text) - Len(part)) :
    SubSeq(text, i + 1, i + Len(part)) = part

\* the lines of the captured output
OutLines == splitLines(out, <<>>)

\* the sentinel line: the first line that has DOCKER_MACHINE_NAME in it
SentinelLine ==
  OutLines[CHOOSE i \in 1..Len(OutLines) :
             /\ Contains(OutLines[i], DOCKER_MACHINE_NAME)
             /\ \A j \in 1..(i - 1) :
                  ~Contains(OutLines[j], DOCKER_MACHINE_NAME)]

\* the sentinel line taken apart at the marker and at the host name after
\* it: what stands before the marker, between the two, and after the name
SentinelParts(name) ==
  LET t == SentinelLine
      a == indexOf(t, DOCKER_MACHINE_NAME)
      b == a + Len(DOCKER_MACHINE_NAME)
      rest == SubSeq(t, b + 1, Len(t))
      c == b + indexOf(rest, name)
  IN [pre |-> SubSeq(t, 1, a),
      mid |-> SubSeq(t, b + 1, c),
      suf |-> SubSeq(t, c + Len(name) + 1, Len(t))]

\* the output has a sentinel line with the queried host name
HasSentinelFor(name) ==
  /\ Contains(out, DOCKER_MACHINE_NAME)
  /\ LET t == SentinelLine
         b == indexOf(t, DOCKER_MACHINE_NAME) + Len(DOCKER_MACHINE_NAME)
     IN /\ Contains(SubSeq(t, b + 1, Len(t)), name)
        /\ ~Contains(SubSeq(t, 1, b), name)

\* a name of letters and underscores
IsVariableName(k) ==
  /\ k # <<>>
  /\ \A i \in 1..Len(k) :
       \/ k[i] = "_"
       \/ \E j \in 1..26 : k[i] = UpperChars[j] \/ k[i] = LowerChars[j]

\* the entries the line gives under the pattern of the sentinel line, the
\* characters of the three parts standing for themselves: from some offset
\* j on the line is pre, a name of n characters, mid, a value and suf
LineEntries(line, parts) ==
  LET fixed == Len(parts.pre) + Len(parts.mid) + Len(parts.suf)
      nameOf(j, n) == SubSeq(line, j + Len(parts.pre) + 1,
                             j + Len(parts.pre) + n)
      valueOf(j, n) == SubSeq(line, j + Len(parts.pre) + n + Len(parts.mid) + 1,
                              Len(line) - Len(parts.suf))
  IN { [k |-> nameOf(c[1], c[2]), v |-> valueOf(c[1], c[2])] :
         c \in { d \in (0..Len(line)) \X (1..Len(line)) :
                   /\ d[1] + d[2] + fixed <= Len(line)
                   /\ IsVariableName(nameOf(d[1], d[2]))
                   /\ SubSeq(line, d[1] + 1, Len(line))
                        = parts.pre \o nameOf(d[1], d[2]) \o parts.mid
                            \o valueOf(d[1], d[2]) \o parts.suf } }

\* the env query closed with code 0 and its callback has run
Parsed ==
  /\ query.kind # "none"
  /\ promise.state = "fulfilled"
  /\ derived.env.state # "pending"

\* C19: when the output has a sentinel line with the queried host name, the
\* parser returns a mapping that has DOCKER_MACHINE_NAME -> host name, an
\* entry for every line that matches the pattern of the sentinel line, no
\* entry that no line gives, and for a name on several lines the value of
\* the last one
C19_AsStated ==
  (Parsed /\ HasSentinelFor(query.name)) =>
    /\ derived.env.state = "fulfilled"
    /\ LET env == derived.env.value
           parts == SentinelParts(query.name)
       IN /\ DOCKER_MACHINE_NAME \in DOMAIN env
          /\ env[DOCKER_MACHINE_NAME] = query.name
          /\ \A k \in DOMAIN env :
               \E i \in 1..Len(OutLines) :
                 \E e \in LineEntries(OutLines[i], parts) : e.k = k
          /\ \A i \in 1..Len(OutLines) :
               \A e \in LineEntries(OutLines[i], parts) :
                 /\ e.k \in DOMAIN env
                 /\ (\A j \in (i + 1)..Len(OutLines) :
                       \A f \in LineEntries(OutLines[j], parts) : f.k # e.k)
                      => env[e.k] = e.v

\* C20: when the env query closes with code 0 and no line of its output has
\* DOCKER_MACHINE_NAME in it, the promise of DockerMachine.env is never
\* fulfilled, and it is rejected once the callback has run
C20_NoSentinelFails ==
  (query.kind # "none" /\ ~Contains(out, DOCKER_MACHINE_NAME)) =>
    /\ derived.env.state # "fulfilled"
    /\ (promise.state = "fulfilled" /\ derived.env.state # "pending")
         => (derived.env.state = "rejected" /\ derived.env.reason # <<>>)

\* the query closed with code 0 and empty output and its promise is rejected
C20_Witness ==
  /\ query.kind = "env"
  /\ promise.state = "fulfilled"
  /\ out = <<>>
  /\ derived.env.state = "rejected"

(* ------------------------------ C21 ------------------------------------ *)

\* the step settles the promise refreshEnv returned
RefreshSettles ==
  /\ query.kind = "refresh"
  /\ derived.ret.state = "pending"
  /\ derived'.ret.state # "pending"

\* the query of the refresh failed: the spawn, the exit code or the parse
QueryFailed == derived.env.state = "rejected"

\* C21: a refreshEnv whose query fails by spawn error, non-zero exit or
\* parse error leaves the env of the handle as it was and rejects the
\* returned promise with that failure; one whose query succeeds makes env
\* the whole newly parsed mapping; while a refresh is under way and in every
\* other step env stays as it is, so it never holds part of each mapping
C21_RefreshAllOrNothing ==
  [][ /\ (RefreshSettles /\ QueryFailed)
          => /\ handle' = handle
             /\ derived'.ret.state = "rejected"
             /\ derived'.ret.reason = derived.env.reason
      /\ (RefreshSettles /\ ~QueryFailed)
          => /\ handle'.env = derived.env.value
             /\ handle'.name = handle.name
             /\ derived'.ret = Fulfilled(derived.env.value)
      /\ (query.kind = "refresh" /\ ~RefreshSettles) => handle' = handle ]_vars

\* a refresh has succeeded and env is the one entry parsed from its output
C21_Witness ==
  /\ query.kind = "refresh"
  /\ derived.ret.state = "fulfilled"
  /\ handle.env = derived.ret.value
  /\ DOMAIN handle.env = {DOCKER_MACHINE_NAME}
  /\ Len(splitLines(out, <<>>)) = 2

(* ------------------------------ C22 ------------------------------------ *)

\* create was called and spawned its subprocess
CreateCalled == call.op = <<"c", "r", "e", "a", "t", "e">> /\ ~call.threw

\* the env query of create is spawned in this step
CreateQueries == CreateCalled /\ query.kind = "none" /\ query'.kind # "none"

\* C22: create spawns the env query only when the create subprocess has
\* closed with code 0, and its promise is fulfilled only with the parsed
\* result of that query, which is the env of the handle; when the create
\* subprocess fails the promise is rejected, no env query is spawned then or
\* later and no handle is made; when the env query fails the promise of
\* create is rejected
C22_CreateThenQuery ==
  /\ [][ /\ CreateQueries
             => /\ child.state = "closed"
                /\ child.code = Num(0)
                /\ ~child.errored
                /\ child.program = <<"d", "o", "c", "k", "e", "r", "-", "m", "a", "c", "h", "i", "n", "e">>
                /\ child.args[1] = Str(<<"c", "r", "e", "a", "t", "e">>)
                /\ child'.args = <<Str(<<"e", "n", "v">>), call.args[1]>>
         /\ (CreateCalled /\ query.kind = "none"
               /\ (promise.state = "rejected"
                     \/ derived.ret.state = "rejected"))
             => /\ query'.kind = "none"
                /\ handle' = handle
                /\ derived'.ret.state # "fulfilled"
         /\ (CreateCalled /\ query.kind = "none"
               /\ promise.state = "rejected" /\ derived.ret.state = "pending"
               /\ derived' # derived)
             => derived'.ret = Rejected(promise.reason) ]_vars
  /\ [](CreateCalled =>
          /\ derived.ret.state = "fulfilled"
               => /\ query.kind # "none"
                  /\ derived.env.state = "fulfilled"
                  /\ derived.ret.value = derived.env.value
                  /\ handle = [made |-> TRUE, name |-> call.args[1].v,
                               env |-> derived.env.value]
          /\ (query.kind # "none" /\ derived.env.state = "rejected")
               => derived.ret.state # "fulfilled"
          /\ (query.kind # "none" /\ derived.env.state = "rejected"
                /\ derived.ret.state # "pending")
               => derived.ret = Rejected(derived.env.reason))

\* create has been fulfilled with a handle of two entries
C22_Witness ==
  /\ CreateCalled
  /\ derived.ret.state = "fulfilled"
  /\ handle.made
  /\ DOCKER_MACHINE_NAME \in DOMAIN handle.env
  /\ handle.env = derived.ret.value

(* ------------------------------ C29 ------------------------------------ *)

\* the options mapping the caller passed to the call, as it was passed
PassedOptions ==
  IF call.op = <<"c", "r", "e", "a", "t", "e">> THEN call.args[3] ELSE call.args[1]

\* C29: after kill, rm, exec, run or create has returned or thrown, the
\* options mapping of the caller has the fields and values it was passed
\* with
C29_AsStated ==
  (/\ call.op \in {<<"k", "i", "l", "l">>, <<"r", "m">>, <<"e", "x", "e", "c">>, <<"r", "u", "n">>, <<"c", "r", "e", "a", "t", "e">>}
   /\ Len(call.args) > 0
   /\ PassedOptions.t = "object")
    => callerOptions = PassedOptions
(* ------------------ the concurrent refresh specification --------------- *)

\* whole outputs of an env query: the two of HandleOutputs and one with
\* the name line alone
RefreshOutputs ==
  HandleOutputs \cup
  { <<"e", "x", "p", "o", "r", "t", " ", "D", "O", "C", "K", "E", "R", "_", "M", "A", "C", "H", "I", "N", "E", "_", "N", "A", "M", "E", "=", "\"", "m", "\"", "\n">> }

\* a handle on host m, refreshEnv called on it twice with the queries under
\* way at once, and a DockerCompose bound to the handle that builds
NextRefresh ==
  \/ /\ ~handle.made
     /\ MachineGet(<<"m">>, Undefined)
  \/ /\ query.kind = "get"
     /\ RefreshEnv(Undefined)
  \/ /\ out = <<>>
     /\ query.kind # "none"
     /\ \E c \in HandleOutputs : StdoutData(c)
  \/ ChildError
  \/ Close
  \/ \E slot \in {1, 2} : ThenParseOf(slot)
  \/ ThenHandle
  \/ /\ query.kind = "refresh"
     /\ Refresh2
  \/ /\ inflight.out = <<>>
     /\ \E c \in RefreshOutputs : Data2(c)
  \/ Error2
  \/ \E c \in {Num(0), Num(1)} : Close2(c)
  \/ ThenHandle2
  \/ ConstructCompose(Undefined, TRUE)
  \/ ServiceCommand(<<"b", "u", "i", "l", "d">>, <<>>)

SpecRefresh == Init /\ [][NextRefresh]_vars

(* ------------------------------ C30 ------------------------------------ *)

\* the step is the successful completion of the first refreshEnv
FirstCompletes ==
  /\ query.kind = "refresh"
  /\ derived.env.state = "fulfilled"
  /\ derived.ret.state = "pending"
  /\ derived'.ret.state = "fulfilled"

\* the step is the successful completion of the second refreshEnv
SecondCompletes ==
  /\ inflight.env.state = "fulfilled"
  /\ inflight.ret.state = "pending"
  /\ inflight'.ret.state = "fulfilled"

\* both refreshEnv calls have completed with success
BothCompleted ==
  /\ query.kind = "refresh"
  /\ derived.ret.state = "fulfilled"
  /\ inflight.ret.state = "fulfilled"

\* the mappings a completed query on the handle can have produced
QueryResults == {parseEnv(o, handle.name).env : o \in RefreshOutputs}

\* the step spawns the docker-compose subprocess
ComposeSpawns ==
  /\ child.program # <<"d", "o", "c", "k", "e", "r", "-", "c", "o", "m", "p", "o", "s", "e">>
  /\ child'.program = <<"d", "o", "c", "k", "e", "r", "-", "c", "o", "m", "p", "o", "s", "e">>

\* C30: with two refreshEnv calls on one handle under way at once, each
\* successful completion makes env that query's whole result and no other
\* step of a refresh changes env; once both have completed env is the
\* result of the one that completed last, whichever started last; and a
\* docker-compose subprocess spawned at any moment gets the env of exactly
\* one completed query
C30_LastCompletionWins ==
  /\ [][ /\ FirstCompletes => handle'.env = derived.env.value
         /\ SecondCompletes => handle'.env = inflight.env.value
         /\ (handle.made /\ ~FirstCompletes /\ ~SecondCompletes)
              => handle' = handle
         /\ (ComposeSpawns /\ compose.bound)
              => /\ childEnv(child') = handle.env
                 /\ handle.env \in QueryResults ]_vars
  /\ [](BothCompleted =>
          handle.env = IF inflight.after THEN inflight.ret.value
                       ELSE derived.ret.value)

\* the second call started while the first was under way and completed
\* first: env is the result of the first, which differs from the second's
C30_Witness ==
  /\ BothCompleted
  /\ inflight.during
  /\ ~inflight.after
  /\ handle.env = derived.ret.value
  /\ handle.env # inflight.ret.value
(* ---------------------- the events specification ---------------------- *)

\* chunks of the standard output of docker-compose events --json: a record
\* without its line feed, whole lines, a line that is no JSON document,
\* two lines at once and a line feed alone
EventChunks ==
  { <<"1">>,
    <<"{", "}", "\n">>,
    <<"x", "\n">>,
    <<"1", "\n", "2", "\n">>,
    <<"\n">>,
    <<"2", "\n">> }

\* a DockerCompose, events() on it, the output of the subprocess in chunks,
\* its end, and the callbacks events() chained
NextEvents ==
  \/ ConstructCompose(Undefined, FALSE)
  \/ \E s \in EventsArgLists : Events(s)
  \/ \E c \in EventChunks : EventsData(c)
  \/ ChildError
  \/ Close
  \/ ThenEvents

SpecEvents == Init /\ [][NextEvents]_vars

(* --------------------------- C25 and C26 ------------------------------- *)

\* the lines of text that end in a line feed, without the line feed
RECURSIVE terminatedLines(_, _)
terminatedLines(text, cur) ==
  IF text = <<>> THEN <<>>
  ELSE IF Head(text) = "\n"
       THEN <<cur>> \o terminatedLines(Tail(text), <<>>)
       ELSE terminatedLines(Tail(text), Append(cur, Head(text)))

\* the records of the lines that are JSON documents, in order
RECURSIVE recordsOf(_)
recordsOf(lines) ==
  IF lines = <<>> THEN <<>>
  ELSE (IF jsonThrows(Head(lines)) THEN <<>> ELSE <<jsonParse(Head(lines))>>)
       \o recordsOf(Tail(lines))

\* the event stream has given its terminal notification
Terminated == stream.state \in {"completed", "errored"}

\* C25: the stream of events() completes exactly when the subprocess closes
\* with code 0 and ends with an error when it closes with another code or
\* fails to spawn; every event record the subprocess wrote is delivered
\* before the terminal notification and none after it
C25_AsStated ==
  /\ [](stream.state = "completed"
          => /\ child.state = "closed"
             /\ child.code = Num(0)
             /\ ~child.errored)
  /\ [](stream.state = "errored"
          => \/ child.errored
             \/ child.state = "closed" /\ child.code # Num(0))
  /\ [](Terminated
          => stream.delivered = recordsOf(terminatedLines(stream.fed, <<>>)))
  /\ [][Terminated => stream'.delivered = stream.delivered]_vars

\* C26: once a completed line of the output is no JSON document the stream
\* has ended with an error given to its subscribers, and nothing was thrown
\* outside the stream
C26_AsStated ==
  (\E i \in 1..Len(terminatedLines(stream.fed, <<>>)) :
      jsonThrows(terminatedLines(stream.fed, <<>>)[i]))
    => /\ stream.state = "errored"
       /\ ~stream.uncaught
(* ------------------ the LineReadStream specification ------------------- *)

\* chunks of the standard output of docker-compose images -q: part of a
\* line, the end of a line, whole lines, a line feed alone and two lines
LineChunks ==
  { <<"a">>,
    <<"b", "\n">>,
    <<"a", "b", "\n">>,
    <<"\n">>,
    <<"a", "\n", "b", "\n">>,
    <<"a", "b", "\n", "b", "\n">> }

\* a DockerCompose, images(true) on it, the _read calls on the
\* LineReadStream it constructs, the chunks of the upstream, the turns of
\* the chunkHandler loop and a consumer
NextLines ==
  \/ ConstructCompose(Undefined, FALSE)
  \/ Images(Bool(TRUE))
  \/ LrsRead
  \/ \E c \in LineChunks : LrsData(c)
  \/ LrsIndex
  \/ LrsPush
  \/ LrsConsume

SpecLines == Init /\ [][NextLines]_vars

\* a chunkHandler that was called runs on without a pause until it returns
SpecLinesFair == SpecLines /\ WF_vars(LrsIndex) /\ WF_vars(LrsPush)

(* ------------------------ C23, C24, C27, C28 --------------------------- *)

\* text after its last line feed
RECURSIVE unterminatedTail(_, _)
unterminatedTail(text, cur) ==
  IF text = <<>> THEN cur
  ELSE IF Head(text) = "\n" THEN unterminatedTail(Tail(text), <<>>)
       ELSE unterminatedTail(Tail(text), Append(cur, Head(text)))

isPrefix(a, b) == Len(a) <= Len(b) /\ a = SubSeq(b, 1, Len(a))

\* no chunkHandler is running
Idle == lrs.run.pc = "idle"

\* C23: the units emitted are, in order, the lines of the text fed so far
\* that end in a line feed, without the line feed: never one before its line
\* feed came, all of them once the handler has returned, and inside the loop
\* the units emitted and the lines of what is left of the chunk after the
\* line so far make up the lines of the text
C23_AsStated ==
  /\ isPrefix(lrs.emitted, terminatedLines(lrs.fed, <<>>))
  /\ Idle => lrs.emitted = terminatedLines(lrs.fed, <<>>)
  /\ lrs.run.pc = "index"
       => lrs.emitted
            \o terminatedLines(lrs.lines[Head(lrs.run.queue)]
                                 \o lrs.run.chunkStr, <<>>)
          = terminatedLines(lrs.fed, <<>>)

\* the push of this step returns false
StopSignalled == lrs.run.pc = "push" /\ ~canPushMore(lrs'.buffered)

\* C24: when push returns false the handler is removed from the upstream
\* and returns; a handler that is not on the upstream emits nothing, so
\* nothing is emitted while none is attached; and a handler is attached
\* again only by a later _read
C24_DetachUntilRead ==
  [][ /\ StopSignalled
         => /\ Head(lrs.run.queue) \notin lrs'.attached
            /\ lrs'.run = nextHandler(lrs.run)
      /\ lrs'.emitted # lrs.emitted => Head(lrs.run.queue) \in lrs.attached
      /\ lrs.attached = {} => lrs'.emitted = lrs.emitted
      /\ (lrs.attached = {} /\ lrs'.attached # {})
         => ~lrs.reading /\ lrs'.reading ]_vars

\* the first handler was stopped after its unit and a later _read attached
\* a second one, which has emitted a unit
C24_Witness ==
  /\ Len(lrs.lines) >= 2
  /\ 1 \notin lrs.attached
  /\ Len(lrs.emitted) >= 2

\* C27: a chunkHandler that was called returns
C27_AsStated == (lrs.run.pc # "idle") ~> (lrs.run.pc = "idle")

\* C28: at most one chunkHandler is on the upstream at any time, and
\* between chunks every line of the upstream text that ends in a line feed
\* has been delivered exactly once and the handler that is attached holds
\* the text after the last line feed
C28_AsStated ==
  /\ Cardinality(lrs.attached) <= 1
  /\ Idle => Len(lrs.emitted) = Len(terminatedLines(lrs.fed, <<>>))
  /\ Idle => \A i \in 1..Len(terminatedLines(lrs.fed, <<>>)) :
               /\ i <= Len(lrs.emitted)
               /\ lrs.emitted[i] = terminatedLines(lrs.fed, <<>>)[i]
  /\ Idle => \A h \in lrs.attached :
               lrs.lines[h] = unterminatedTail(lrs.fed, <<>>)

====
